---------------------------- MODULE Spec2Model ----------------------------
(***************************************************************************)
(* A model of the ZeRO sharding engine of ColossalAI:                      *)
(*   - get_shard (zero/shard_utils/commons.py),                            *)
(*   - ShardedTensor (zero/sharded_param/sharded_tensor.py),               *)
(*   - BucketTensorShardStrategy.gather                                    *)
(*     (zero/shard_utils/bucket_tensor_shard_strategy.py),                 *)
(*   - the chunk strategy (TensorShardStrategy) and the MemoryTracer,      *)
(*     whose code is outside src/ and which are modelled from spec.md,     *)
(*   - InsertPostInitMethodToModuleSubClasses / ZeroInitContext            *)
(*     (zero/init_ctx/init_context.py).                                    *)
(*                                                                         *)
(* Part I models W ranks that run the same sequence of strategy calls on   *)
(* the same tensors (the caller contract of the collectives); each rank    *)
(* advances through a call on its own and meets the others in all_gather.  *)
(***************************************************************************)
EXTENDS Integers, Sequences, FiniteSets, TLC

(***************************************************************************)
(* Bounds of the model.                                                    *)
(***************************************************************************)
\* largest world size of the process group
MaxW == 2
\* largest origin_numel of a tensor
MaxNumel == 4
\* number of direct calls of ShardedTensor methods between strategy calls
MaxCalls == 1
\* number of ZeroInitContext instances
NumCtx == 1
\* number of top-level module constructions
MaxBuilds == 2

\* pipeline stages and micro-batches
MaxStages == 3

MaxMicro == 1

\* start-stop intervals a timer keeps in its history
MaxLaps == 2

\* the ShardedTensors of the run: tensor A and tensor B of spec.md 8
Tensors == {1, 2}
AllRanks == 0..(MaxW - 1)

VARIABLES
    \* ---- Part I: sharding engine ----
    W,          \* dist.get_world_size(process_group)
    numel,      \* [Tensors -> Nat]: ShardedTensor._origin_numel
    oshape,     \* [Tensors -> Seq(Nat)]: ShardedTensor._origin_shape
    payload,    \* [rank -> [Tensors -> payload]]: ShardedTensor._payload
    sharded,    \* [rank -> [Tensors -> BOOLEAN]]: ShardedTensor._is_sharded
    tracer,     \* [rank -> MemoryTracer state]: GLOBAL_MODEL_DATA_TRACER
    call,       \* the strategy call all ranks are executing
    pc,         \* [rank -> position of the rank inside the call]
    idx,        \* [rank -> index in the list of the chunk gather loop]
    locals,     \* [rank -> tensor_list, tensor_numels of a bucket gather in flight,
                \*  and the operations on the gathered buffers that have run]
    sent,       \* [rank -> the send buffers the rank gave to all_gather]
    failed,     \* [rank -> BOOLEAN]: an assertion or tensor operation raised
    hist,       \* history: what the calls started from (for the properties)
    tcall,      \* history: the last direct call of a ShardedTensor method
    \* ---- Part II: construction-time interception ----
    defined,    \* the module classes that exist (class statements executed)
    subclasses, \* torch.nn.Module.__subclasses__(): direct subclasses, in order
    initfn,     \* [class -> cls.__dict__['__init__'], or NoFn]
    oldinit,    \* [class -> cls.__dict__['_old_init'], or NoFn]
    hook,       \* Module.__init_subclass__: 0 the original, k the hook of context k
    oldhook,    \* Module._old_init_subclass: -1 unset, else as hook
    cstatus,    \* [context -> "new", "active", "exited", "exit_failed"]
    ccfg,       \* shard_param, rm_torch_payload_on_the_fly of the contexts
    myrank,     \* dist.get_rank of the process that builds the modules
    ctotal,     \* [context -> model_numel_tensor]
    plist,      \* [context -> initialized_param_list]
    params,     \* the parameters created so far
    ninst,      \* number of module instances created so far
    gtracer,    \* GLOBAL_MODEL_DATA_TRACER of the building process
    builds,     \* number of top-level constructions so far
    pending,    \* an exception is propagating out of the with block
    scoped,     \* history: the classes defined or constructed inside a scope
    last,       \* history: the last top-level construction
    centry,     \* history: [context -> what __enter__ found, how __exit__ went]
    \* ---- Part III: col_model_deepcopy ----
    other,      \* [rank -> [Tensors -> param.data of the other model]]
    \* ---- Part IV: pipeline point-to-point communication ----
    pcfg,       \* the pipeline: stages, tensor-parallel world size, shapes, flags
    pstage,     \* [stage -> position in the schedule, wait state, log of calls]
    chan,       \* [<<source, destination>> -> the messages sent and not yet received]
    \* ---- Part V: MultiTimer ----
    mtimer,     \* the MultiTimer: _on, _timers, and the last call of reset
    \* ---- Part VI: two initialization scopes ----
    nest        \* two ZeroInitContext instances and the classes they patch

shardVars == <<W, numel, oshape, payload, sharded, tracer, call, pc, idx,
               locals, sent, failed, hist, tcall>>

ctxVars == <<defined, subclasses, initfn, oldinit, hook, oldhook, cstatus, ccfg,
             myrank, ctotal, plist, params, ninst, gtracer, builds, pending,
             scoped, last, centry>>

\* col_model_deepcopy
copyVars == <<other>>

\* communication/p2p.py
pipeVars == <<pcfg, pstage, chan>>

\* utils/timer.py
timerVars == <<mtimer>>

\* two scopes of init_context.py
nestVars == <<nest>>

extVars == <<copyVars, pipeVars, timerVars, nestVars>>

\* what the actions of one part leave alone of the other parts
notCopy == <<pipeVars, timerVars, nestVars>>
notPipe == <<copyVars, timerVars, nestVars>>
notTimer == <<copyVars, pipeVars, nestVars>>
notNest == <<copyVars, pipeVars, timerVars>>

vars == <<shardVars, ctxVars, extVars>>

Ranks == 0..(W - 1)

(***************************************************************************)
(* Sequences and tensors.  A tensor value is a record: its elements in     *)
(* row-major order and its shape.  None is the absent payload.             *)
(***************************************************************************)
RECURSIVE Sum(_)
Sum(s) == IF s = <<>> THEN 0 ELSE Head(s) + Sum(Tail(s))

RECURSIVE Prod(_)
Prod(s) == IF s = <<>> THEN 1 ELSE Head(s) * Prod(Tail(s))

RECURSIVE Cat(_)
\* torch.cat of a list of 1D tensors
Cat(ss) == IF ss = <<>> THEN <<>> ELSE Head(ss) \o Cat(Tail(ss))

Zeros(n) == [i \in 1..n |-> 0]

Min(a, b) == IF a < b THEN a ELSE b

\* x[lo:hi] of Python, 0-based, hi exclusive, clipped to the length
Slice(s, lo, hi) ==
    LET h == Min(hi, Len(s))
    IN  IF lo >= h THEN <<>> ELSE [i \in 1..(h - lo) |-> s[lo + i]]

None == [present |-> FALSE, data |-> <<>>, shape |-> <<>>]

Tensor(d, sh) == [present |-> TRUE, data |-> d, shape |-> sh]

\* the values tensor t holds before it is first sharded: distinct, non-zero
OrigData(t) == [i \in 1..numel[t] |-> 100 * t + i]

\* the shapes a tensor of n elements is given here: 1D, and 2 x n/2
ShapesOf(n) == {<<n>>} \cup (IF n > 0 /\ n % 2 = 0 THEN {<<2, n \div 2>>} ELSE {})

\* tensor.view(shape): defined when the element counts agree
CanView(d, sh) == Len(d) = Prod(sh)

\* bytes of a payload as the tracer counts them (2-byte elements)
ByteSize(p) == IF p.present THEN 2 * Len(p.data) ELSE 0

(***************************************************************************)
(* get_shard, commons.py.  torch.chunk(world_size) splits a flat tensor of *)
(* n elements into chunks of split_size = ceil(n / world_size): as many    *)
(* full chunks as fit, then the rest; for n = 0 it yields world_size empty *)
(* chunks.                                                                 *)
(***************************************************************************)
CeilDiv(a, b) == (a + b - 1) \div b

\* mutant of TorchChunk: chunk length by floor division
TorchChunk_floor(d, w) ==
    LET n  == Len(d)
        ss == n \div w
    IN  IF ss = 0
        THEN [k \in 1..w |-> <<>>]
        ELSE [k \in 1..CeilDiv(n, ss) |-> Slice(d, (k - 1) * ss, k * ss)]

\* tensor.chunk(w): the list of chunks
TorchChunk(d, w) ==
    LET n  == Len(d)
        ss == CeilDiv(n, w)
    IN  IF ss = 0
        THEN [k \in 1..w |-> <<>>]
        ELSE [k \in 1..CeilDiv(n, ss) |-> Slice(d, (k - 1) * ss, k * ss)]

\* mutant of ShardChunks: the list is filled up with copies of the first chunk
ShardChunks_repeat(d, w) ==
    LET c == TorchChunk(d, w)
    IN  [k \in 1..w |-> IF k <= Len(c) THEN c[k] ELSE c[1]]

\* lines 9-11: the chunks, filled up with empty chunks to world_size
ShardChunks(d, w) ==
    LET c == TorchChunk(d, w)
    IN  [k \in 1..w |-> IF k <= Len(c) THEN c[k] ELSE <<>>]

\* mutant of NumToPad: no shard is padded
NumToPad_none(d, rank, w) == 0

\* mutant of NumToPad: every rank pads by the padding of the whole tensor
NumToPad_total(d, rank, w) == CeilDiv(Len(d), w) * w - Len(d)

\* line 14: num_to_pad
NumToPad(d, rank, w) ==
    LET c == ShardChunks(d, w) IN Len(c[1]) - Len(c[rank + 1])

\* mutant of get_shard: the shard is returned without its padding
get_shard_nopad(d, rank, w) ==
    LET c   == ShardChunks(d, w)
        pad == NumToPad(d, rank, w)
    IN  [shard |-> c[rank + 1], num_to_pad |-> pad, ok |-> pad >= 0]

\* lines 6-20: the shard, its padding count, and whether the assertion held
get_shard(d, rank, w) ==
    LET c   == ShardChunks(d, w)
        pad == NumToPad(d, rank, w)
    IN  [shard      |-> c[rank + 1] \o Zeros(IF pad > 0 THEN pad ELSE 0),
         num_to_pad |-> pad,
         ok         |-> pad >= 0]

(***************************************************************************)
(* MemoryTracer: a map from tensor identity to byte size and the running   *)
(* total of it.  entries[t] = -1 says t is not tracked; asked_absent says   *)
(* that it was asked to add or delete a tensor whose payload was absent.   *)
(***************************************************************************)
NewTracer == [started |-> TRUE, total |-> 0, entries |-> [t \in Tensors |-> -1],
              asked_absent |-> FALSE]

Tracked(tr, t) == tr.entries[t] >= 0

\* add_tensor(t), t with payload p
add_tensor(tr, t, p) ==
    IF ~tr.started THEN tr
    ELSE [tr EXCEPT !.total = @ - (IF Tracked(tr, t) THEN tr.entries[t] ELSE 0)
                                + ByteSize(p),
                    !.entries[t] = ByteSize(p),
                    !.asked_absent = @ \/ ~p.present]

\* mutant of delete_tensor: the entry is left in the map
delete_tensor_keep(tr, t, p) ==
    IF ~tr.started \/ ~Tracked(tr, t) THEN tr
    ELSE [tr EXCEPT !.total = @ - tr.entries[t]]

\* delete_tensor(t), t with payload p
delete_tensor(tr, t, p) ==
    IF ~tr.started THEN tr
    ELSE IF ~Tracked(tr, t) THEN [tr EXCEPT !.asked_absent = @ \/ ~p.present]
    ELSE [tr EXCEPT !.total = @ - tr.entries[t], !.entries[t] = -1,
                    !.asked_absent = @ \/ ~p.present]

RECURSIVE DeleteAll(_, _, _)
\* delete_tensor for every tensor of a list, in order, with the payloads pl
DeleteAll(tr, l, pl) ==
    IF l = <<>> THEN tr
    ELSE DeleteAll(delete_tensor(tr, Head(l), pl[Head(l)]), Tail(l), pl)

RECURSIVE AddAll(_, _, _)
\* add_tensor for every tensor of a list, in order, with the payloads pl
AddAll(tr, l, pl) ==
    IF l = <<>> THEN tr
    ELSE AddAll(add_tensor(tr, Head(l), pl[Head(l)]), Tail(l), pl)

(***************************************************************************)
(* The state of one rank, as the strategy code reads and writes it: the    *)
(* payload and is_sharded of every tensor, the tracer, whether a call has  *)
(* raised, and origin, the _origin_numel and _origin_shape of the tensors. *)
(***************************************************************************)
RankState(r) == [payload |-> payload[r], sharded |-> sharded[r],
                 tracer |-> tracer[r], failed |-> failed[r],
                 origin |-> [numel |-> numel, shape |-> oshape]]

Range(l) == {l[i] : i \in 1..Len(l)}

\* mutant of reset_payload: the origin metadata follow the new payload
reset_payload_reshape(st, t, p) ==
    [st EXCEPT !.payload[t] = p, !.origin.numel[t] = Len(p.data),
               !.origin.shape[t] = p.shape]

\* mutant of reset_payload: a tensor given a new payload counts as unsharded
reset_payload_unshard(st, t, p) ==
    [st EXCEPT !.payload[t] = p, !.sharded[t] = FALSE]

\* ShardedTensor.reset_payload, sharded_tensor.py 45-47: no check at all
reset_payload(st, t, p) == [st EXCEPT !.payload[t] = p]

(***************************************************************************)
(* Chunk strategy (spec.md 4.2).  shard is local to the rank; a tensor     *)
(* whose payload is replaced is deleted from the tracer before and added   *)
(* after (spec.md 3).                                                      *)
(***************************************************************************)
shard_tensor(st, t, r) ==
    IF st.failed THEN st
    ELSE LET g  == get_shard(st.payload[t].data, r, W)
             p  == Tensor(g.shard, <<Len(g.shard)>>)
             s1 == [st EXCEPT !.tracer = delete_tensor(@, t, st.payload[t])]
             s2 == reset_payload(s1, t, p)
         IN  IF ~g.ok THEN [st EXCEPT !.failed = TRUE]
             ELSE [s2 EXCEPT !.sharded[t] = TRUE,
                             !.tracer = add_tensor(@, t, p)]

RECURSIVE shard_list(_, _, _)
shard_list(st, l, r) ==
    IF l = <<>> THEN st ELSE shard_list(shard_tensor(st, Head(l), r), Tail(l), r)

\* spec.md 4.2 gather step 2: concatenate in rank order, truncate, reshape
GatheredPayload(buffers, t) ==
    Tensor(Slice(Cat(buffers), 0, numel[t]), oshape[t])

\* spec.md 4.2 gather steps 2-3 on one rank, once all_gather has returned
gather_tensor(st, t, buffers) ==
    LET g  == GatheredPayload(buffers, t)
        s1 == [st EXCEPT !.tracer = delete_tensor(@, t, st.payload[t])]
        s2 == reset_payload(s1, t, g)
    IN  IF ~CanView(g.data, g.shape) THEN [st EXCEPT !.failed = TRUE]
        ELSE [s2 EXCEPT !.sharded[t] = FALSE, !.tracer = add_tensor(@, t, g)]

\* the next tensor of the list, after position i, that the rank must gather
NextSharded(st, l, i) ==
    LET todo == {j \in (i + 1)..Len(l) : st.sharded[l[j]]}
    IN  IF todo = {} THEN 0 ELSE CHOOSE j \in todo : \A k \in todo : j <= k

(***************************************************************************)
(* BucketTensorShardStrategy.gather, bucket_tensor_shard_strategy.py.      *)
(***************************************************************************)
\* mutant of ShardedOf: the list is not filtered
ShardedOf_all(st, l) == l

\* mutant of ShardedOf: only the flag of the first tensor is looked at
ShardedOf_first(st, l) == IF st.sharded[Head(l)] THEN l ELSE <<>>

\* line 24: the tensors of the list that are marked sharded, in list order
ShardedOf(st, l) == SelectSeq(l, LAMBDA t : st.sharded[t])

\* line 30: tensor_numels
TensorNumels(st, tl) == [i \in 1..Len(tl) |-> Len(st.payload[tl[i]].data)]

\* line 36: flatten([t.payload for t in tensor_list])
FlattenPayloads(st, tl) == Cat([i \in 1..Len(tl) |-> st.payload[tl[i]].data])

RECURSIVE ReleaseAll(_, _)
\* lines 38-39: t.reset_payload(None) for every tensor of the list
ReleaseAll(st, tl) ==
    IF tl = <<>> THEN st
    ELSE ReleaseAll(reset_payload(st, Head(tl), None), Tail(tl))

\* mutant of Offset: the offset is never advanced
Offset_stuck(nums, i) == 0

\* mutant of Offset: the offset is advanced before the slice is cut
Offset_early(nums, i) == Sum(SubSeq(nums, 1, i))

RECURSIVE Offset(_, _)
\* lines 46, 52: the offset of the i-th tensor of the list: 0 at the first,
\* then advanced by tensor_numels[i] at the end of every turn of the loop
Offset(nums, i) == IF i <= 1 THEN 0 ELSE Offset(nums, i - 1) + nums[i - 1]

\* mutant of GatheredFragment: every fragment is cut with the first tensor's size
GatheredFragment_first(buffer_list, nums, i, t) ==
    Slice(Cat([b \in 1..Len(buffer_list) |->
                 Slice(buffer_list[b], Offset(nums, i), Offset(nums, i) + nums[1])]),
          0, numel[t])

\* lines 48-49: the fragment of tensor i cut from every buffer, joined,
\* truncated to origin_numel
GatheredFragment(buffer_list, nums, i, t) ==
    Slice(Cat([b \in 1..Len(buffer_list) |->
                 Slice(buffer_list[b], Offset(nums, i), Offset(nums, i) + nums[i])]),
          0, numel[t])

RECURSIVE InstallAll(_, _, _, _, _)
\* lines 47-52: the loop over the list, from position i on
InstallAll(st, tl, nums, buffer_list, i) ==
    IF i > Len(tl) \/ st.failed THEN st
    ELSE LET t == tl[i]
             d == GatheredFragment(buffer_list, nums, i, t)
             s1 == reset_payload(st, t, Tensor(d, oshape[t]))
         IN  IF ~CanView(d, oshape[t]) THEN [st EXCEPT !.failed = TRUE]
             ELSE InstallAll([s1 EXCEPT !.sharded[t] = FALSE],
                             tl, nums, buffer_list, i + 1)

\* mutant of BucketBefore: the payloads are released before the tensors are
\* deleted from the tracer
BucketBefore_releasefirst(st, l) ==
    LET tl == ShardedOf(st, l)
        s0 == IF tl = <<>> THEN st ELSE ReleaseAll(st, tl)
    IN  [st     |-> [s0 EXCEPT !.tracer = DeleteAll(@, l, s0.payload)],
         tl     |-> tl,
         nums   |-> TensorNumels(st, tl),
         buffer |-> FlattenPayloads(st, tl)]

\* lines 27-30, 36: device, dtype, numel() and flatten read the payloads of
\* the list; a payload that is absent (None) makes them raise
PayloadsPresent(st, tl) == \A i \in 1..Len(tl) : st.payload[tl[i]].present

\* mutant of BucketBefore: the payloads are released before they are copied
\* into the send buffer
BucketBefore_flattenlate(st, l) ==
    LET s1 == [st EXCEPT !.tracer = DeleteAll(@, l, st.payload)]
        tl == ShardedOf(s1, l)
        s2 == IF tl = <<>> THEN s1 ELSE ReleaseAll(s1, tl)
    IN  [st     |-> IF PayloadsPresent(s2, tl) THEN s2 ELSE [s2 EXCEPT !.failed = TRUE],
         tl     |-> tl,
         nums   |-> TensorNumels(s1, tl),
         buffer |-> FlattenPayloads(s2, tl)]

\* lines 21-41: everything before all_gather
BucketBefore(st, l) ==
    LET s1 == [st EXCEPT !.tracer = DeleteAll(@, l, st.payload)]
        tl == ShardedOf(s1, l)
    IN  [st     |-> IF tl = <<>> THEN s1
                    ELSE IF ~PayloadsPresent(s1, tl) THEN [s1 EXCEPT !.failed = TRUE]
                    ELSE ReleaseAll(s1, tl),
         tl     |-> tl,
         nums   |-> TensorNumels(s1, tl),
         buffer |-> FlattenPayloads(s1, tl)]

\* lines 42-52: the operations on the buffers, in order: the collective (42),
\* the move of every buffer to the target device (45), then for every tensor
\* of the list the slices of the buffers (48) and the install of the joined
\* fragment (49-50); nothing else touches the device
BufferOps(tl) ==
    <<"all_gather", "to_target_device">>
        \o Cat([i \in 1..Len(tl) |-> <<"slice", "reset_payload">>])

\* mutant of BucketAfter: the tensors are not added to the tracer again
BucketAfter_noadd(st, tl, nums, buffer_list) ==
    InstallAll(st, tl, nums, buffer_list, 1)

\* lines 42-55: everything after all_gather
BucketAfter(st, tl, nums, buffer_list) ==
    LET s1 == InstallAll(st, tl, nums, buffer_list, 1)
    IN  IF s1.failed THEN s1
        ELSE [s1 EXCEPT !.tracer = AddAll(@, tl, s1.payload)]

(***************************************************************************)
(* The run: all ranks execute the same calls, one call at a time.          *)
(***************************************************************************)
\* lists of distinct tensors
Lists == {l \in UNION {[1..n -> Tensors] : n \in 1..Cardinality(Tensors)} :
            \A i, j \in 1..Len(l) : i # j => l[i] # l[j]}

Ops == {"register", "shard", "gather", "bucket"}

Between == \A r \in Ranks : pc[r] \in {"idle", "done"}

\* hist: phase, list, reg, total0, orig0 describe the shard call that opened a
\* shard-then-gather cycle; payload0, sharded0, entries0, expect describe the
\* state the call in progress started from.
NoCycle == [phase |-> "none", list |-> <<>>, reg |-> FALSE,
            total0 |-> <<>>, orig0 |-> <<>>]

\* tcall: the method called last (op), the tensor it was called on, its
\* argument, for every rank whether it raised, the message and the tensor's
\* state before and after, and the number n of direct calls so far.  The
\* direct calls of a run follow its strategy calls.
NoCall == [op |-> "none", tensor |-> 0, arg |-> <<>>, n |-> 0,
           raised |-> <<>>, msg |-> <<>>, before |-> <<>>, after |-> <<>>]

\* what chunk gather of tensor t alone gives on rank r, from a state between calls
ChunkGatherAlone(r, t) ==
    IF sharded[r][t]
    THEN GatheredPayload([i \in 1..W |-> payload[i - 1][t].data], t)
    ELSE payload[r][t]

ShardInit ==
    /\ W \in 1..MaxW
    /\ numel \in [Tensors -> 0..MaxNumel]
    /\ oshape \in [Tensors -> UNION {ShapesOf(n) : n \in 0..MaxNumel}]
    /\ \A t \in Tensors : oshape[t] \in ShapesOf(numel[t])
    /\ payload = [r \in Ranks |-> [t \in Tensors |-> Tensor(OrigData(t), oshape[t])]]
    /\ sharded = [r \in Ranks |-> [t \in Tensors |-> FALSE]]
    /\ tracer = [r \in Ranks |-> NewTracer]
    /\ call = [op |-> "none", list |-> <<>>]
    /\ pc = [r \in Ranks |-> "idle"]
    /\ idx = [r \in Ranks |-> 0]
    /\ locals = [r \in Ranks |-> [tl |-> <<>>, nums |-> <<>>, ops |-> <<>>]]
    /\ sent = [r \in Ranks |-> <<>>]
    /\ failed = [r \in Ranks |-> FALSE]
    /\ hist = [cyc |-> NoCycle, payload0 |-> payload, sharded0 |-> sharded,
               entries0 |-> [r \in Ranks |-> NewTracer.entries],
               expect |-> payload]
    /\ tcall = NoCall

\* the caller starts the next call on every rank
StartCall(op, l) ==
    /\ UNCHANGED <<ctxVars, extVars, tcall>>
    /\ tcall.n = 0
    /\ Between
    /\ \A r \in Ranks : ~failed[r]
    /\ op = "shard" => \A r \in Ranks : \A t \in Range(l) : ~sharded[r][t]
    /\ call' = [op |-> op, list |-> l]
    /\ pc' = [r \in Ranks |-> "run"]
    /\ idx' = [r \in Ranks |-> 0]
    /\ sent' = [r \in Ranks |-> <<>>]
    /\ locals' = [r \in Ranks |-> [tl |-> <<>>, nums |-> <<>>, ops |-> <<>>]]
    /\ hist' = [cyc |->
                  IF op = "shard"
                  THEN [phase  |-> "sharding", list |-> l,
                        reg    |-> \A r \in Ranks : \A t \in Range(l) :
                                      Tracked(tracer[r], t),
                        total0 |-> [r \in Ranks |-> tracer[r].total],
                        orig0  |-> payload]
                  ELSE IF /\ op \in {"gather", "bucket"}
                          /\ hist.cyc.phase = "sharding"
                          /\ Range(l) = Range(hist.cyc.list)
                       THEN [hist.cyc EXCEPT !.phase = "gathering"]
                       ELSE NoCycle,
                payload0 |-> payload, sharded0 |-> sharded,
                entries0 |-> [r \in Ranks |-> tracer[r].entries],
                expect |-> [r \in Ranks |-> [t \in Tensors |-> ChunkGatherAlone(r, t)]]]
    /\ UNCHANGED <<W, numel, oshape, payload, sharded, tracer, failed>>

\* write back the state of rank r
SetRank(r, st) ==
    /\ payload' = [payload EXCEPT ![r] = st.payload]
    /\ sharded' = [sharded EXCEPT ![r] = st.sharded]
    /\ tracer' = [tracer EXCEPT ![r] = st.tracer]
    /\ failed' = [failed EXCEPT ![r] = st.failed]
    /\ numel' = st.origin.numel
    /\ oshape' = st.origin.shape

\* init_context.py 180: GLOBAL_MODEL_DATA_TRACER.add_tensor(sharded_data_tensor)
Register(r) ==
    /\ UNCHANGED <<ctxVars, extVars, tcall>>
    /\ pc[r] = "run" /\ call.op = "register"
    /\ SetRank(r, [RankState(r) EXCEPT !.tracer = AddAll(@, call.list, payload[r])])
    /\ pc' = [pc EXCEPT ![r] = "done"]
    /\ UNCHANGED <<W, call, idx, locals, sent, hist>>

\* chunk strategy, shard(tensor_list)
Shard(r) ==
    /\ UNCHANGED <<ctxVars, extVars, tcall>>
    /\ pc[r] = "run" /\ call.op = "shard"
    /\ SetRank(r, shard_list(RankState(r), call.list, r))
    /\ pc' = [pc EXCEPT ![r] = "done"]
    /\ UNCHANGED <<W, call, idx, locals, sent, hist>>

\* chunk strategy, gather(tensor_list): the rank reaches the all_gather of the
\* next sharded tensor of the list, or the end of the list
GatherEnter(r) ==
    /\ UNCHANGED <<ctxVars, extVars, tcall>>
    /\ pc[r] = "run" /\ call.op = "gather"
    /\ LET j == NextSharded(RankState(r), call.list, idx[r])
       IN  IF j = 0
           THEN /\ pc' = [pc EXCEPT ![r] = "done"]
                /\ UNCHANGED <<idx, sent>>
           ELSE /\ pc' = [pc EXCEPT ![r] = "coll"]
                /\ idx' = [idx EXCEPT ![r] = j]
                /\ sent' = [sent EXCEPT ![r] = Append(@, payload[r][call.list[j]].data)]
    /\ UNCHANGED <<W, numel, oshape, payload, sharded, tracer, failed, call, locals, hist>>

\* all_gather returns on rank r once every rank has given its buffer
Arrived(r) == \A q \in Ranks : Len(sent[q]) >= Len(sent[r])

\* the buffers all_gather hands to rank r, in rank order
BufferList(r) == [i \in 1..W |-> sent[i - 1][Len(sent[r])]]

SameSizes(bl) == \A i, j \in 1..Len(bl) : Len(bl[i]) = Len(bl[j])

GatherFinish(r) ==
    /\ UNCHANGED <<ctxVars, extVars, tcall>>
    /\ pc[r] = "coll" /\ call.op = "gather"
    /\ Arrived(r)
    /\ LET bl == BufferList(r)
       IN  SetRank(r, IF SameSizes(bl)
                      THEN gather_tensor(RankState(r), call.list[idx[r]], bl)
                      ELSE [RankState(r) EXCEPT !.failed = TRUE])
    /\ pc' = [pc EXCEPT ![r] = "run"]
    /\ UNCHANGED <<W, call, idx, locals, sent, hist>>

\* bucket gather up to its all_gather (lines 21-41), or its early return (26),
\* or the exception of a read of an absent payload
BucketEnter(r) ==
    /\ UNCHANGED <<ctxVars, extVars, tcall>>
    /\ pc[r] = "run" /\ call.op = "bucket"
    /\ LET b == BucketBefore(RankState(r), call.list)
       IN  /\ SetRank(r, b.st)
           /\ IF b.tl = <<>> \/ b.st.failed
              THEN /\ pc' = [pc EXCEPT ![r] = "done"]
                   /\ UNCHANGED <<locals, sent>>
              ELSE /\ pc' = [pc EXCEPT ![r] = "coll"]
                   /\ locals' = [locals EXCEPT ![r] = [tl |-> b.tl, nums |-> b.nums,
                                                          ops |-> <<>>]]
                   /\ sent' = [sent EXCEPT ![r] = <<b.buffer>>]
    /\ UNCHANGED <<W, call, idx, hist>>

\* bucket gather after its all_gather (lines 42-55)
BucketFinish(r) ==
    /\ UNCHANGED <<ctxVars, extVars, tcall>>
    /\ pc[r] = "coll" /\ call.op = "bucket"
    /\ Arrived(r)
    /\ LET bl == BufferList(r)
       IN  SetRank(r, IF SameSizes(bl)
                      THEN BucketAfter(RankState(r), locals[r].tl, locals[r].nums, bl)
                      ELSE [RankState(r) EXCEPT !.failed = TRUE])
    /\ locals' = [locals EXCEPT ![r].ops = BufferOps(locals[r].tl)]
    /\ pc' = [pc EXCEPT ![r] = "done"]
    /\ UNCHANGED <<W, call, idx, sent, hist>>

ShardNext ==
    \/ \E op \in Ops, l \in Lists : StartCall(op, l)
    \/ \E r \in Ranks : Register(r)
    \/ \E r \in Ranks : Shard(r)
    \/ \E r \in Ranks : GatherEnter(r)
    \/ \E r \in Ranks : GatherFinish(r)
    \/ \E r \in Ranks : BucketEnter(r)
    \/ \E r \in Ranks : BucketFinish(r)


(***************************************************************************)
(* Direct calls of the methods of ShardedTensor, sharded_tensor.py: the    *)
(* caller of the strategies may call them on any tensor between two        *)
(* strategy calls, on every rank alike (the ranks run the same program).   *)
(* An exception they raise is caught by the caller.                        *)
(***************************************************************************)
\* the tensor passed to copy_payload or reset_payload: m elements, 1D
Src(m) == [i \in 1..m |-> 900 + i]

\* lines 42-43: self._payload.view(-1).copy_(tensor.view(-1)).  Tensor.copy_
\* broadcasts its source to the shape of the destination: a source of one
\* element fills a payload of any size; any other unequal count raises.
copy_payload(st, t, src) ==
    LET p == st.payload[t]
        n == Len(p.data)
        m == Len(src)
    IN  IF ~p.present
        THEN [st |-> st, raised |-> TRUE, msg |-> "no payload"]
        ELSE IF m = n
        THEN [st |-> [st EXCEPT !.payload[t].data = src], raised |-> FALSE, msg |-> ""]
        ELSE IF m = 1
        THEN [st |-> [st EXCEPT !.payload[t].data = [i \in 1..n |-> src[1]]],
              raised |-> FALSE, msg |-> ""]
        ELSE [st |-> st, raised |-> TRUE, msg |-> "size mismatch"]

\* mutant of to: the call returns
to_silent(st, t) == [st |-> st, raised |-> FALSE, msg |-> ""]

\* lines 58-59 and 61-62: to and to_ raise RuntimeError, whose message names
\* colo_model_tensor_move
to(st, t) == [st |-> st, raised |-> TRUE, msg |-> "colo_model_tensor_move"]

to_(st, t) == [st |-> st, raised |-> TRUE, msg |-> "colo_model_tensor_move"]

\* the record of a direct call on tensor t; res[r] is its outcome on rank r
CallRecord(op, t, arg, res) ==
    [op |-> op, tensor |-> t, arg |-> arg, n |-> tcall.n + 1,
     raised |-> [r \in Ranks |-> res[r].raised],
     msg    |-> [r \in Ranks |-> res[r].msg],
     before |-> [r \in Ranks |-> [payload |-> payload[r][t],
                                  sharded |-> sharded[r][t],
                                  numel   |-> numel[t],
                                  shape   |-> oshape[t]]],
     after  |-> [r \in Ranks |-> [payload |-> res[r].st.payload[t],
                                  sharded |-> res[r].st.sharded[t],
                                  numel   |-> res[r].st.origin.numel[t],
                                  shape   |-> res[r].st.origin.shape[t]]]]

\* write back the states of all ranks; the strategy call that came before is
\* over, and so is what the history kept of it
SetRanks(res) ==
    /\ payload' = [r \in Ranks |-> res[r].st.payload]
    /\ sharded' = [r \in Ranks |-> res[r].st.sharded]
    /\ tracer' = [r \in Ranks |-> res[r].st.tracer]
    /\ failed' = [r \in Ranks |-> res[r].st.failed]
    /\ numel' = res[0].st.origin.numel
    /\ oshape' = res[0].st.origin.shape
    /\ call' = [op |-> "none", list |-> <<>>]
    /\ pc' = [r \in Ranks |-> "idle"]
    /\ idx' = [r \in Ranks |-> 0]
    /\ locals' = [r \in Ranks |-> [tl |-> <<>>, nums |-> <<>>, ops |-> <<>>]]
    /\ sent' = [r \in Ranks |-> <<>>]
    /\ hist' = [cyc |-> NoCycle, payload0 |-> payload', sharded0 |-> sharded',
                entries0 |-> [r \in Ranks |-> tracer'[r].entries],
                expect |-> payload']

CanCall == Between /\ tcall.n < MaxCalls /\ \A r \in Ranks : ~failed[r]

\* every rank calls t.copy_payload(src) with a source of m elements
CopyPayload(t, m) ==
    /\ UNCHANGED <<ctxVars, extVars>>
    /\ CanCall
    /\ \E res \in {[r \in Ranks |-> copy_payload(RankState(r), t, Src(m))]} :
          /\ SetRanks(res)
          /\ tcall' = CallRecord("copy_payload", t, Src(m), res)
    /\ UNCHANGED W

\* every rank calls t.reset_payload(tensor) with a tensor of m elements
ResetPayload(t, m) ==
    /\ UNCHANGED <<ctxVars, extVars>>
    /\ CanCall
    /\ \E res \in {[r \in Ranks |->
                      [st |-> reset_payload(RankState(r), t, Tensor(Src(m), <<m>>)),
                       raised |-> FALSE, msg |-> ""]]} :
          /\ SetRanks(res)
          /\ tcall' = CallRecord("reset_payload", t, Src(m), res)
    /\ UNCHANGED W

\* every rank calls t.reset_payload(None)
ResetPayloadNone(t) ==
    /\ UNCHANGED <<ctxVars, extVars>>
    /\ CanCall
    /\ \E res \in {[r \in Ranks |->
                      [st |-> reset_payload(RankState(r), t, None),
                       raised |-> FALSE, msg |-> ""]]} :
          /\ SetRanks(res)
          /\ tcall' = CallRecord("reset_payload_none", t, <<>>, res)
    /\ UNCHANGED W

\* every rank calls t.to(device) or t.to_(device)
To(t, inplace) ==
    /\ UNCHANGED <<ctxVars, extVars>>
    /\ CanCall
    /\ \E res \in {[r \in Ranks |-> IF inplace THEN to_(RankState(r), t)
                                               ELSE to(RankState(r), t)]} :
          /\ SetRanks(res)
          /\ tcall' = CallRecord(IF inplace THEN "to_" ELSE "to", t, <<>>, res)
    /\ UNCHANGED W

TensorNext ==
    \/ \E t \in Tensors, m \in 0..MaxNumel : CopyPayload(t, m)
    \/ \E t \in Tensors, m \in 0..MaxNumel : ResetPayload(t, m)
    \/ \E t \in Tensors : ResetPayloadNone(t)
    \/ \E t \in Tensors, inplace \in BOOLEAN : To(t, inplace)


(***************************************************************************)
(* Properties of the sharding engine, checked under SpecShard.             *)
(***************************************************************************)
Done(r) == pc[r] = "done"

AllDone == \A r \in Ranks : Done(r)

\* a shard-then-gather cycle over call.list has been completed by rank r
CycleClosed(r) == hist.cyc.phase = "gathering" /\ Done(r)

\* C1: round trip. When every rank has sharded the tensors of a list and
\* then gathered them (chunk gather or bucket gather), the call has not
\* failed and each rank's payload of each tensor is exactly the payload it
\* held before the shard, values in order and shape, and is_sharded is false.
C1_RoundTrip ==
    \A r \in Ranks : CycleClosed(r) =>
        /\ ~failed[r]
        /\ \A t \in Range(call.list) :
              /\ payload[r][t] = hist.cyc.orig0[r][t]
              /\ payload[r][t] = Tensor(OrigData(t), oshape[t])
              /\ ~sharded[r][t]

\* a closed bucket cycle with W = 2 over a tensor of 3 elements (padding) and
\* an empty tensor
C1_Witness ==
    /\ W = 2 /\ AllDone /\ hist.cyc.phase = "gathering" /\ call.op = "bucket"
    /\ \E t \in Range(call.list) : numel[t] = 3
    /\ \E t \in Range(call.list) : numel[t] = 0
    /\ \A r \in Ranks : \A t \in Range(call.list) :
          payload[r][t] = Tensor(OrigData(t), oshape[t])

\* C2: strategy equivalence. When bucket gather of a list has returned on a
\* rank, every tensor of the list has the payload (values and shape) and the
\* is_sharded flag that chunk gather of that tensor alone gives from the
\* state the call started in.
C2_BucketEqualsChunk ==
    \A r \in Ranks : (call.op = "bucket" /\ Done(r)) =>
        /\ ~failed[r]
        /\ \A t \in Range(call.list) :
              /\ payload[r][t] = hist.expect[r][t]
              /\ sharded[r][t] = FALSE

\* bucket gather of two sharded tensors of different chunk sizes, W = 2
C2_Witness ==
    /\ W = 2 /\ AllDone /\ call.op = "bucket" /\ Len(call.list) = 2
    /\ \A r \in Ranks : \A t \in Tensors : hist.sharded0[r][t]
    /\ numel[1] = 3 /\ numel[2] = 1
    /\ \A r \in Ranks : \A t \in Tensors : payload[r][t] = hist.expect[r][t]

\* what bucket gather of list l leaves as the payloads of rank r, from a state
\* between calls
BucketResult(r, l) ==
    LET b(q) == BucketBefore(RankState(q), l)
    IN  IF b(r).tl = <<>> THEN b(r).st
        ELSE BucketAfter(b(r).st, b(r).tl, b(r).nums, [i \in 1..W |-> b(i - 1).buffer])

\* C3: order independence. Between calls, for any two lists that hold the
\* same tensors in different orders, bucket gather leaves every tensor with
\* the same payload on every rank, and that payload is the tensor's own
\* pre-shard values in its own shape.
C3_BucketOrderIndependent ==
    Between =>
        \A l1, l2 \in Lists : Range(l1) = Range(l2) =>
            \A r \in Ranks :
                /\ ~BucketResult(r, l1).failed
                /\ \A t \in Range(l1) :
                      /\ BucketResult(r, l1).payload[t] = BucketResult(r, l2).payload[t]
                      /\ BucketResult(r, l1).payload[t] = Tensor(OrigData(t), oshape[t])

\* bucket gather of <<2, 1>> has run with both tensors sharded, of different
\* sizes (4 and 3, local chunks 2 and 2; 3 and 1, local chunks 2 and 1)
C3_Witness ==
    /\ W = 2 /\ AllDone /\ call.op = "bucket" /\ call.list = <<2, 1>>
    /\ \A r \in Ranks : \A t \in Tensors : hist.sharded0[r][t]
    /\ numel[1] = 3 /\ numel[2] = 1
    /\ \A r \in Ranks : \A t \in Tensors :
          payload[r][t] = Tensor(OrigData(t), oshape[t])

\* C4: after shard, the local payload on every rank has length
\* ceil(N / W); it holds the rank's raw chunk of the flattened tensor
\* followed by zeros up to that length.
C4_ShardLength ==
    \A r \in Ranks : (call.op = "shard" /\ Done(r)) =>
        /\ ~failed[r]
        /\ \A t \in Range(call.list) :
              LET cl == CeilDiv(numel[t], W)
                  d  == payload[r][t].data
              IN  /\ sharded[r][t]
                  /\ Len(d) = cl
                  /\ \A i \in 1..cl :
                        d[i] = IF r * cl + i <= numel[t]
                               THEN OrigData(t)[r * cl + i] ELSE 0

\* W = 2, N = 3: both ranks hold 2 elements, the last one of rank 1 is padding
C4_Witness ==
    /\ W = 2 /\ AllDone /\ call.op = "shard"
    /\ \E t \in Range(call.list) :
          /\ numel[t] = 3
          /\ Len(payload[0][t].data) = 2
          /\ payload[1][t].data = <<OrigData(t)[3], 0>>

\* C5: gather of an unsharded tensor is a no-op. At every point of a chunk
\* gather or bucket gather, a tensor of the list that was unsharded when the
\* call started keeps is_sharded false and its payload.
C5_GatherUnshardedNoop ==
    \A r \in Ranks : (call.op \in {"gather", "bucket"} /\ pc[r] # "idle") =>
        \A t \in Range(call.list) : ~hist.sharded0[r][t] =>
            /\ ~sharded[r][t]
            /\ payload[r][t] = hist.payload0[r][t]

\* bucket gather has returned for a list with one sharded and one unsharded
\* tensor
C5_Witness ==
    /\ AllDone /\ call.op = "bucket" /\ Len(call.list) = 2 /\ W = 2
    /\ \E t, u \in Range(call.list) :
          /\ hist.sharded0[0][t] /\ ~hist.sharded0[0][u]
          /\ numel[u] > 0
          /\ payload[0][u] = hist.payload0[0][u]

\* C6: accounting closure. After a complete shard-then-gather cycle over
\* tensors that were all registered when the shard started, the tracked total
\* of each rank is what it was when the shard started.
C6_CycleRestoresTotal ==
    \A r \in Ranks : (CycleClosed(r) /\ hist.cyc.reg) =>
        tracer[r].total = hist.cyc.total0[r]

\* a closed bucket cycle over two registered tensors whose chunks are smaller
\* than the tensors
C6_Witness ==
    /\ W = 2 /\ AllDone /\ hist.cyc.phase = "gathering" /\ hist.cyc.reg
    /\ call.op = "bucket" /\ Len(call.list) = 2
    /\ \A t \in Tensors : numel[t] >= 2
    /\ \A r \in Ranks : tracer[r].total = hist.cyc.total0[r] /\ tracer[r].total > 0

SameFlags ==
    \A r, q \in Ranks : \A t \in Range(call.list) :
        hist.sharded0[r][t] = hist.sharded0[q][t]

\* the list of the call held a sharded tensor when the call started
SomeSharded == \E t \in Range(call.list) : hist.sharded0[0][t]

\* C17 as stated: when every rank calls bucket gather with the same list and
\* the same flags, every rank issues exactly one all-gather.
C17_ExactlyOneAllGather ==
    (call.op = "bucket" /\ SameFlags) =>
        \A r \in Ranks : Done(r) => Len(sent[r]) = 1

\* C17, amended: when every rank calls bucket gather with the same list and
\* the same flags, every rank issues one all-gather if the list holds a
\* sharded tensor and none if it holds none; the send buffers of all ranks
\* have one size; no rank fails; and no rank is left waiting in the
\* collective: once no rank is on its way to it, it returns on every rank
\* that waits in it.
C17_BucketCollectiveCompletes ==
    (call.op = "bucket" /\ SameFlags) =>
        /\ \A r \in Ranks :
              /\ ~failed[r]
              /\ Len(sent[r]) <= 1
              /\ pc[r] \in {"coll", "done"} =>
                    Len(sent[r]) = IF SomeSharded THEN 1 ELSE 0
        /\ \A r, q \in Ranks : (sent[r] # <<>> /\ sent[q] # <<>>) =>
              Len(sent[r][1]) = Len(sent[q][1])
        /\ (\A r \in Ranks : pc[r] # "run") =>
              \A r \in Ranks : pc[r] = "coll" => Arrived(r) /\ SameSizes(BufferList(r))

\* W = 2: both ranks have returned from a bucket gather of two sharded
\* tensors, one of 3 elements (padded) and a smaller one, each after one
\* all-gather with a buffer of the two chunks
C17_Witness ==
    /\ W = 2 /\ AllDone /\ call.op = "bucket" /\ Len(call.list) = 2
    /\ \A r \in Ranks : \A t \in Tensors : hist.sharded0[r][t]
    /\ \E t \in Tensors : numel[t] = 3
    /\ \E t \in Tensors : numel[t] = 1
    /\ \A r \in Ranks : Len(sent[r]) = 1 /\ Len(sent[r][1]) = 3 /\ ~failed[r]

\* C18: bucket gather unregisters only the tensors of its list that are
\* marked sharded.  At every point of the call, a tensor of the list that was
\* unsharded when the call started has the tracer entry it had then, and if
\* the list held no sharded tensor the total is the one it was.
C18_UnshardedStaysRegistered ==
    \A r \in Ranks : (call.op = "bucket" /\ pc[r] # "idle") =>
        /\ \A t \in Range(call.list) : ~hist.sharded0[r][t] =>
              tracer[r].entries[t] = hist.entries0[r][t]
        /\ (\A t \in Range(call.list) : ~hist.sharded0[r][t]) =>
              tracer[r].total = Sum([t \in Tensors |->
                                       IF hist.entries0[r][t] >= 0
                                       THEN hist.entries0[r][t] ELSE 0])

\* C19: in bucket gather a tensor whose payload is replaced is unregistered
\* before its payload is reset and re-registered after its final payload is
\* installed.  The tracer is never asked to add or delete a tensor whose
\* payload is absent; while a rank waits in the collective the tensors it
\* gathers have no payload and no tracer entry; when the call has returned
\* they are registered with the size of the payload they have then.
C19_TracerOrder ==
    \A r \in Ranks :
        /\ ~tracer[r].asked_absent
        /\ (call.op = "bucket" /\ pc[r] = "coll") =>
              \A t \in Range(locals[r].tl) :
                  ~payload[r][t].present /\ ~Tracked(tracer[r], t)
        /\ (call.op = "bucket" /\ Done(r) /\ ~failed[r]) =>
              \A t \in Range(call.list) : hist.sharded0[r][t] =>
                  /\ payload[r][t].present
                  /\ tracer[r].entries[t] = ByteSize(payload[r][t])

\* W = 2: rank 0 waits in the collective with a tensor that was registered
\* with 4 bytes, now without payload and unregistered, while rank 1 has
\* returned with the tensor registered with its full 6 bytes
C19_Witness ==
    /\ W = 2 /\ call.op = "bucket" /\ pc[0] = "coll" /\ Done(1)
    /\ \E t \in Range(locals[0].tl) :
          /\ numel[t] = 3
          /\ hist.entries0[0][t] = 4
          /\ ~payload[0][t].present /\ ~Tracked(tracer[0], t)
          /\ tracer[1].entries[t] = 6

\* C20: in bucket gather the local chunks are copied into the send buffer
\* before they are released, all of them are released before the all-gather,
\* and no payload is read while absent.  A rank that waits in the collective
\* has not failed, has given all_gather the chunks it held when the call
\* started, joined in list order, and holds no payload for any of these
\* tensors; a rank that has returned has not failed and holds a payload for
\* every tensor it gathered.
C20_CopyThenRelease ==
    \A r \in Ranks : call.op = "bucket" =>
        /\ pc[r] = "coll" =>
              LET tl == locals[r].tl
              IN  /\ ~failed[r]
                  /\ tl = SelectSeq(call.list, LAMBDA t : hist.sharded0[r][t])
                  /\ sent[r] = <<Cat([i \in 1..Len(tl) |-> hist.payload0[r][tl[i]].data])>>
                  /\ locals[r].nums =
                        [i \in 1..Len(tl) |-> Len(hist.payload0[r][tl[i]].data)]
                  /\ \A t \in Range(tl) : ~payload[r][t].present
        /\ Done(r) =>
              /\ ~failed[r]
              /\ \A t \in Range(call.list) : payload[r][t].present

\* W = 2: rank 1 waits in the collective of a bucket gather of two sharded
\* tensors, with a send buffer of the two chunks and no payloads; rank 0 has
\* returned with both payloads whole
C20_Witness ==
    /\ W = 2 /\ call.op = "bucket" /\ Len(call.list) = 2
    /\ pc[1] = "coll" /\ Done(0)
    /\ Len(locals[1].tl) = 2 /\ numel[1] = 3 /\ numel[2] = 2
    /\ Len(sent[1][1]) = 3
    /\ \A t \in Tensors : ~payload[1][t].present
    /\ \A t \in Tensors : payload[0][t] = Tensor(OrigData(t), oshape[t])

\* C21: in bucket gather the offset of the i-th processed tensor is the sum
\* of the local chunk sizes of the processed tensors before it; the slices
\* [offset, offset + c_t) are pairwise disjoint and together cover exactly
\* [0, buffer_size), buffer_size the sum of all c_t.  The chunk sizes c_t are
\* those of the payloads the rank held when the call started, the buffer is
\* the one the rank gave to all_gather.
C21_OffsetsPartitionBuffer ==
    \A r \in Ranks :
        (call.op = "bucket" /\ pc[r] \in {"coll", "done"} /\ locals[r].tl # <<>>) =>
            LET tl       == locals[r].tl
                c(i)     == Len(hist.payload0[r][tl[i]].data)
                off(i)   == Offset(locals[r].nums, i)
                slice(i) == off(i)..(off(i) + c(i) - 1)
                size     == Len(sent[r][1])
            IN  /\ \A i \in 1..Len(tl) : off(i) = Sum([j \in 1..(i - 1) |-> c(j)])
                /\ \A i, j \in 1..Len(tl) : i # j => slice(i) \cap slice(j) = {}
                /\ UNION {slice(i) : i \in 1..Len(tl)} = 0..(size - 1)
                /\ size = Sum([j \in 1..Len(tl) |-> c(j)])

\* W = 2, list <<2, 1>> with chunks of 1 and 2 elements: rank 1 has returned
\* from a bucket gather whose second tensor was cut at offset 1 of a buffer of 3
C21_Witness ==
    /\ W = 2 /\ call.op = "bucket" /\ call.list = <<2, 1>>
    /\ pc[1] = "done" /\ ~failed[1]
    /\ locals[1].tl = <<2, 1>> /\ locals[1].nums = <<1, 2>>
    /\ Offset(locals[1].nums, 2) = 1
    /\ Len(sent[1][1]) = 3
    /\ payload[1][1] = Tensor(OrigData(1), oshape[1])

\* C22: bucket gather issues an all-gather if and only if its list holds at
\* least one tensor marked sharded; a call whose list holds none returns
\* without entering any collective.  On every rank: no buffer is given to
\* all_gather before the rank has passed the filter, a rank waiting in the
\* collective had a sharded tensor in its list, and a rank that has returned
\* has issued one all-gather if its list held a sharded tensor when the call
\* started and none otherwise.
C22_AllGatherIffSharded ==
    \A r \in Ranks : call.op = "bucket" =>
        LET some == \E t \in Range(call.list) : hist.sharded0[r][t]
        IN  /\ pc[r] = "run" => sent[r] = <<>>
            /\ pc[r] = "coll" => some /\ Len(sent[r]) = 1
            /\ pc[r] = "done" => Len(sent[r]) = (IF some THEN 1 ELSE 0)

\* W = 2, list <<1, 2>> with only tensor 2 sharded: rank 0 has returned after
\* its one all-gather, rank 1 waits in it
C22_Witness ==
    /\ W = 2 /\ call.op = "bucket" /\ call.list = <<1, 2>>
    /\ ~hist.sharded0[0][1] /\ hist.sharded0[0][2]
    /\ pc[0] = "done" /\ Len(sent[0]) = 1
    /\ pc[1] = "coll"
    /\ ~sharded[0][1] /\ ~sharded[0][2]

\* the elements of d that are padding: the values of a tensor are non-zero
Zeroes(d) == Cardinality({i \in 1..Len(d) : d[i] = 0})

\* the number of non-empty chunks torch.chunk cuts n elements into for w ranks
NonEmptyChunks(n, w) == IF n = 0 THEN 0 ELSE CeilDiv(n, CeilDiv(n, w))

\* C23: for every N >= 0, W >= 1 and rank in 0..W-1, get_shard returns a shard
\* without failing its num_to_pad >= 0 assertion; when W exceeds the number
\* of non-empty chunks, the chunks of the trailing ranks are empty: they
\* carry no element of the original tensor.  After shard on rank r: the call
\* has not failed, the payload is what get_shard returned for the tensor the
\* rank held, its num_to_pad is not negative, and a rank past the last
\* non-empty chunk holds padding only, while every rank before holds at least
\* one element of the tensor.
C23_GetShardNeverFails ==
    \A r \in Ranks : (call.op = "shard" /\ Done(r)) =>
        /\ ~failed[r]
        /\ \A t \in Range(call.list) :
              LET d0 == hist.payload0[r][t].data
                  g  == get_shard(d0, r, W)
                  d  == payload[r][t].data
              IN  /\ g.ok /\ g.num_to_pad >= 0
                  /\ d = g.shard
                  /\ IF r >= NonEmptyChunks(Len(d0), W)
                     THEN /\ Zeroes(d) = Len(d)
                          /\ g.num_to_pad = Len(d)
                          /\ ShardChunks(d0, W)[r + 1] = <<>>
                     ELSE Zeroes(d) < Len(d)

\* W = 2: N = 1 has one non-empty chunk, rank 1 holds one element of padding;
\* N = 0 has none, both ranks hold an empty shard
C23_Witness ==
    /\ W = 2 /\ AllDone /\ call.op = "shard" /\ Len(call.list) = 2
    /\ \E t, u \in Range(call.list) :
          /\ numel[t] = 1 /\ numel[u] = 0
          /\ payload[0][t].data = <<OrigData(t)[1]>>
          /\ payload[1][t].data = <<0>>
          /\ payload[0][u].data = <<>> /\ payload[1][u].data = <<>>
          /\ sharded[1][t] /\ sharded[1][u]

\* a tensor of 10 elements
Ten == [i \in 1..10 |-> 1000 + i]

\* C24: the padding counts returned by get_shard on the W ranks are each
\* non-negative and sum to chunk_length * W - N, chunk_length = ceil(N / W):
\* the total padding is determined by N and W alone (N = 10, W = 4 gives 2).
\* When all ranks have sharded a tensor, the zeros their shards end with are
\* the counts get_shard returned, and together they are ceil(N / W) * W - N.
C24_PaddingSum ==
    /\ (call.op = "shard" /\ AllDone) =>
          \A t \in Range(call.list) :
              LET N      == numel[t]
                  pad(r) == get_shard(hist.payload0[r][t].data, r, W).num_to_pad
              IN  /\ \A r \in Ranks : pad(r) >= 0 /\ pad(r) = Zeroes(payload[r][t].data)
                  /\ Sum([k \in 1..W |-> pad(k - 1)]) = CeilDiv(N, W) * W - N
    /\ \A rank \in 0..3 : get_shard(Ten, rank, 4).num_to_pad >= 0
    /\ Sum([k \in 1..4 |-> get_shard(Ten, k - 1, 4).num_to_pad]) = 2

\* W = 2, N = 3: rank 0 pads nothing, rank 1 pads one element: 2 * 2 - 3 = 1
C24_Witness ==
    /\ W = 2 /\ AllDone /\ call.op = "shard"
    /\ \E t \in Range(call.list) :
          /\ numel[t] = 3
          /\ get_shard(hist.payload0[0][t].data, 0, W).num_to_pad = 0
          /\ get_shard(hist.payload0[1][t].data, 1, W).num_to_pad = 1
          /\ Zeroes(payload[0][t].data) = 0 /\ Zeroes(payload[1][t].data) = 1

\* C30: in bucket gather, after the gathered buffers are moved to the target
\* device, a synchronization with the accelerator happens before any fragment
\* is sliced out of a buffer and installed as a payload.
C30_SyncBeforeInstall ==
    \A r \in Ranks :
        (call.op = "bucket" /\ Done(r) /\ locals[r].tl # <<>>) =>
            LET ops == locals[r].ops
            IN  \E j \in 1..Len(ops) :
                    /\ ops[j] = "synchronize"
                    /\ \E i \in 1..(j - 1) : ops[i] = "to_target_device"
                    /\ \A i \in 1..Len(ops) :
                          ops[i] \in {"slice", "reset_payload"} => j < i

(***************************************************************************)
(* Properties of the methods of ShardedTensor, checked under SpecTensor.   *)
(***************************************************************************)
\* C12: copy_payload with a source whose element count differs from the
\* payload's raises a size-mismatch error and leaves the payload as it was,
\* for every pair of unequal counts; with equal counts it copies every
\* element of the source.
C12_CopyPayloadSizeChecked ==
    tcall.op = "copy_payload" =>
        \A r \in Ranks :
            IF Len(tcall.arg) # Len(tcall.before[r].payload.data)
            THEN /\ tcall.raised[r]
                 /\ tcall.msg[r] = "size mismatch"
                 /\ tcall.after[r] = tcall.before[r]
            ELSE /\ ~tcall.raised[r]
                 /\ tcall.after[r].payload.data = tcall.arg
                 /\ tcall.after[r].payload.shape = tcall.before[r].payload.shape

\* C13: to and to_ always raise, with a message that names the relocation
\* path (colo_model_tensor_move), whether the tensor is sharded or not, and
\* leave its payload, is_sharded flag and origin metadata as they were.
C13_ToAlwaysFails ==
    tcall.op \in {"to", "to_"} =>
        \A r \in Ranks :
            /\ tcall.raised[r]
            /\ tcall.msg[r] = "colo_model_tensor_move"
            /\ tcall.after[r] = tcall.before[r]

\* to_ was called on a sharded tensor, W = 2, and raised
C13_Witness ==
    /\ tcall.op = "to_" /\ W = 2
    /\ tcall.before[1].sharded /\ tcall.before[1].numel = 3
    /\ tcall.raised[1]

\* C14: origin_shape, origin_numel and world_size of a ShardedTensor never
\* change: every step of every sequence of shard, gather, bucket gather,
\* reset_payload and copy_payload calls leaves them as construction set them.
C14_OriginImmutable ==
    [][W' = W /\ numel' = numel /\ oshape' = oshape]_vars

\* reset_payload has given a sharded tensor, W = 2, a payload whose count and
\* shape are not the origin ones
C14_Witness ==
    /\ tcall.op = "reset_payload" /\ W = 2
    /\ tcall.before[0].sharded
    /\ Len(tcall.arg) # numel[tcall.tensor]
    /\ payload[0][tcall.tensor].shape # oshape[tcall.tensor]
    /\ tcall.after[0].numel = tcall.before[0].numel

\* the payload that the direct call recorded in c passed to reset_payload
ResetArg(c) == IF c.op = "reset_payload_none" THEN None
               ELSE Tensor(c.arg, <<Len(c.arg)>>)

\* C31: reset_payload(x) makes x the payload for any x, with no shape check
\* and including an absent payload, and leaves is_sharded, origin_shape,
\* origin_numel and world_size unchanged: no operation of ShardedTensor itself
\* toggles is_sharded.  Every direct call of a method of a ShardedTensor, on
\* every rank (rank and world size are the rank's index and W), leaves all
\* flags and the origin metadata of all tensors as they were; reset_payload
\* does not raise and changes exactly the payload of its tensor, to x.
C31_ResetPayloadFrame ==
    [][tcall' # tcall =>
          /\ sharded' = sharded
          /\ W' = W /\ numel' = numel /\ oshape' = oshape
          /\ tcall'.op \in {"reset_payload", "reset_payload_none"} =>
                \A r \in Ranks :
                    /\ ~tcall'.raised[r]
                    /\ payload'[r] =
                          [payload[r] EXCEPT ![tcall'.tensor] = ResetArg(tcall')]]_vars

\* W = 2: reset_payload(None) on a sharded tensor of 3 elements has left rank 1
\* without payload and the tensor marked sharded; the other tensor is as it was
C31_Witness ==
    /\ tcall.op = "reset_payload_none" /\ W = 2
    /\ tcall.before[1].sharded /\ tcall.before[1].numel = 3
    /\ tcall.before[1].payload.present
    /\ payload[1][tcall.tensor] = None
    /\ sharded[1][tcall.tensor]
    /\ numel[tcall.tensor] = 3

(***************************************************************************)
(* Part II.  InsertPostInitMethodToModuleSubClasses and ZeroInitContext,   *)
(* init_context.py.  The module classes of the run:                        *)
(*   1 Linear   a direct subclass of Module; its __init__ creates one      *)
(*              parameter;                                                 *)
(*   2 Derived  a subclass of Linear; its __init__ calls super().__init__  *)
(*              and then creates one parameter of its own;                 *)
(*   3 Plain    a subclass of Linear without an __init__ of its own;       *)
(*   4 Net      a direct subclass of Module; its __init__ creates one      *)
(*              parameter and a Derived submodule.                         *)
(* Class 0 is torch.nn.Module itself.  A class statement may be executed   *)
(* before, inside or after a scope.                                        *)
(***************************************************************************)
Classes == {1, 2, 3, 4}

Parent == [c \in Classes |-> IF c \in {2, 3} THEN 1 ELSE 0]

OwnInit == [c \in Classes |-> c # 3]

OwnParams == [c \in Classes |-> IF c = 3 THEN 0 ELSE 1]

SubModule == [c \in Classes |-> IF c = 4 THEN 2 ELSE 0]

\* the element count of the parameter that the __init__ of class b creates
ParamNumel == [c \in Classes |-> c + 1]

Ctxs == 1..NumCtx

(***************************************************************************)
(* An __init__ function is the original __init__ of a class (body; 0 is    *)
(* Module.__init__) inside the wrappers of preprocess_after, innermost     *)
(* first; a wrapper remembers the context whose __enter__ made it.         *)
(***************************************************************************)
Fn(b, ws) == [body |-> b, wraps |-> ws]

NoFn == Fn(-1, <<>>)

ModuleInit == Fn(0, <<>>)

RECURSIVE LookupInit(_, _)
\* cls.__init__: the attribute found along the base classes
LookupInit(tab, c) ==
    IF c = 0 THEN ModuleInit
    ELSE IF tab[c] # NoFn THEN tab[c] ELSE LookupInit(tab, Parent[c])

RECURSIVE LookupOld(_, _)
\* cls._old_init; NoFn when no class on the way has it (AttributeError)
LookupOld(tab, c) ==
    IF c = 0 THEN NoFn
    ELSE IF tab[c] # NoFn THEN tab[c] ELSE LookupOld(tab, Parent[c])

\* lines 27-34: preprocess_after(f) of the __enter__ of context k
preprocess_after(k, f) == Fn(f.body, Append(f.wraps, k))

RECURSIVE EnableAll(_, _, _)
\* lines 36-38, 46-47: _enable_class for every class of the list; st holds the
\* tables init and old
EnableAll(st, l, k) ==
    IF l = <<>> THEN st
    ELSE LET c == Head(l)
             f == LookupInit(st.init, c)
         IN  EnableAll([init |-> [st.init EXCEPT ![c] = preprocess_after(k, f)],
                        old  |-> [st.old EXCEPT ![c] = f]],
                       Tail(l), k)

RECURSIVE DisableAll(_, _)
\* lines 58-63: _disable_class for every class of the list; stops with
\* err = TRUE at the first class without _old_init
DisableAll(st, l) ==
    IF l = <<>> THEN st
    ELSE LET c == Head(l)
             f == LookupOld(st.old, c)
         IN  IF f = NoFn THEN [st EXCEPT !.err = TRUE]
             ELSE DisableAll([st EXCEPT !.init[c] = f], Tail(l))

(***************************************************************************)
(* Construction of a module.  es is the state the construction works on:   *)
(* params, ninst, ctotal, plist, tr (the tracer), cbs (the callbacks that  *)
(* ran: context and instance), err (an exception is propagating).          *)
(* A parameter: insts (the instance that owns it and the instances that    *)
(* enclose that one), numel, payload (of its ShardedTensor), wrapped       *)
(* (has col_attr), nadd (add_tensor calls for it), ncount (times counted), *)
(* sharded, torch (its pre-wrapping backing storage is still held),        *)
(* nfree (times that storage was released), by (the context whose callback *)
(* processed it, 0 for none), inscope (that scope was active then), at     *)
(* (the position in cbs of the callback that processed it, 0 for none),    *)
(* steps (the steps of _post_init_method that ran for it, in order), open  *)
(* (the tracer was started and not closed when add_tensor was called).     *)
(* last describes the latest construction: its class, instance and scope   *)
(* (ctx, 0 outside every scope), whether it raised, the callbacks that     *)
(* ran, whether the class had been used or defined inside a scope          *)
(* (inscope), and the scopes that had been left before it.                 *)
(***************************************************************************)
NewParam(b, insts, id) ==
    [insts |-> insts, numel |-> ParamNumel[b],
     payload |-> Tensor([i \in 1..ParamNumel[b] |-> 100 * id + i], <<ParamNumel[b]>>),
     wrapped |-> FALSE, nadd |-> 0, ncount |-> 0, sharded |-> FALSE,
     torch |-> TRUE, nfree |-> 0, by |-> 0, inscope |-> FALSE, at |-> 0,
     steps |-> <<>>, open |-> FALSE]

\* the sharded tensors of the parameters, as the strategy sees them
AsRankState(es) ==
    [payload |-> [i \in 1..Len(es.params) |-> es.params[i].payload],
     sharded |-> [i \in 1..Len(es.params) |-> es.params[i].sharded],
     tracer  |-> es.tr, failed |-> FALSE]

\* mutant of CountOf: parameters are counted, not their elements
CountOf_one(p) == 1

\* line 161: param.numel(), read before the parameter is wrapped and sharded
CountOf(p) == p.numel

\* mutant of AdaptParam: the tensor is sharded before it is added to the tracer
AdaptParam_shardfirst(es, k, i) ==
    LET e1 == [es EXCEPT !.ctotal[k] = @ + CountOf(es.params[i]),
                         !.params[i].ncount = @ + 1,
                         !.params[i].wrapped = TRUE,
                         !.params[i].by = k,
                         !.params[i].at = Len(es.cbs),
                         !.params[i].inscope = (cstatus[k] = "active"),
                         !.params[i].torch = IF ccfg.rm THEN FALSE ELSE @,
                         !.params[i].nfree = IF ccfg.rm THEN @ + 1 ELSE @,
                         !.params[i].steps = <<"count", "cast", "move", "wrap">>]
        e2 == [e1 EXCEPT !.plist[k].items = Append(@, i)]
        sh == shard_tensor(AsRankState(e2), i, myrank)
        e3 == IF ~ccfg.shard_param THEN e2
              ELSE [e2 EXCEPT !.tr = sh.tracer,
                              !.params[i].payload = sh.payload[i],
                              !.params[i].sharded = sh.sharded[i],
                              !.params[i].steps = Append(@, "shard"),
                              !.err = sh.failed]
        e4 == [e3 EXCEPT !.tr = add_tensor(@, i, e3.params[i].payload),
                         !.params[i].nadd = @ + 1,
                         !.params[i].open = e3.tr.started,
                         !.params[i].steps = Append(@, "register")]
    IN  IF ~es.plist[k].alive THEN [e1 EXCEPT !.err = TRUE] ELSE e4

\* lines 161-183: the steps for parameter i, not yet processed, in context k:
\* count (161), cast (166-169), move (172-174), wrap (176), append to
\* initialized_param_list (178), register (180), shard (182-183)
AdaptParam(es, k, i) ==
    LET e1 == [es EXCEPT !.ctotal[k] = @ + CountOf(es.params[i]),
                         !.params[i].ncount = @ + 1,
                         !.params[i].wrapped = TRUE,
                         !.params[i].by = k,
                         !.params[i].at = Len(es.cbs),
                         !.params[i].inscope = (cstatus[k] = "active"),
                         !.params[i].torch = IF ccfg.rm THEN FALSE ELSE @,
                         !.params[i].nfree = IF ccfg.rm THEN @ + 1 ELSE @,
                         !.params[i].steps = <<"count", "cast", "move", "wrap">>]
        e2 == [e1 EXCEPT !.plist[k].items = Append(@, i)]
        e3 == [e2 EXCEPT !.tr = add_tensor(@, i, e2.params[i].payload),
                         !.params[i].nadd = @ + 1,
                         !.params[i].open = e2.tr.started,
                         !.params[i].steps = Append(@, "register")]
        sh == shard_tensor(AsRankState(e3), i, myrank)
        e4 == [e3 EXCEPT !.tr = sh.tracer,
                         !.params[i].payload = sh.payload[i],
                         !.params[i].sharded = sh.sharded[i],
                         !.params[i].steps = Append(@, "shard"),
                         !.err = sh.failed]
    IN  IF ~es.plist[k].alive THEN [e1 EXCEPT !.err = TRUE]
        ELSE IF ccfg.shard_param THEN e4 ELSE e3

RECURSIVE PostInitFrom_noskip(_, _, _, _)
\* mutant of PostInitFrom: without the hasattr guard of lines 158-159
PostInitFrom_noskip(es, k, m, i) ==
    IF i > Len(es.params) \/ es.err THEN es
    ELSE IF m \notin es.params[i].insts
         THEN PostInitFrom_noskip(es, k, m, i + 1)
         ELSE PostInitFrom_noskip(AdaptParam(es, k, i), k, m, i + 1)

RECURSIVE PostInitFrom(_, _, _, _)
\* lines 156-183: the loop over module.parameters(), from parameter i on
PostInitFrom(es, k, m, i) ==
    IF i > Len(es.params) \/ es.err THEN es
    ELSE IF m \notin es.params[i].insts \/ es.params[i].wrapped
         THEN PostInitFrom(es, k, m, i + 1)
         ELSE PostInitFrom(AdaptParam(es, k, i), k, m, i + 1)

\* lines 151-191: _post_init_method(module) of context k
post_init_method(es, k, m) ==
    PostInitFrom([es EXCEPT !.cbs = Append(@, [ctx |-> k, inst |-> m])], k, m, 1)

RECURSIVE RunWrappers(_, _, _)
\* line 32 of every wrapper around the function that has returned
RunWrappers(es, ws, m) ==
    IF ws = <<>> \/ es.err THEN es
    ELSE RunWrappers(post_init_method(es, Head(ws), m), Tail(ws), m)

RECURSIVE AddParams(_, _, _, _)
AddParams(es, b, insts, n) ==
    IF n = 0 THEN es
    ELSE AddParams([es EXCEPT !.params =
                        Append(@, NewParam(b, insts, Len(es.params) + 1)),
                              !.tr.entries = Append(@, -1)],
                   b, insts, n - 1)

RECURSIVE RunInit(_, _, _, _, _)
\* the call f(module): m is the instance, encl the instances that enclose it,
\* fail says that the original __init__ that is not a super().__init__ call
\* (top) raises at its end.  The original __init__ of class b calls
\* super().__init__(), creates its parameters, then builds its submodule.
RunInit(es, f, m, encl, fail) ==
    IF es.err THEN es
    ELSE LET b  == f.body
             e1 == IF b = 0 THEN es
                   ELSE RunInit(es, LookupInit(initfn, Parent[b]), m, encl, FALSE)
             e2 == IF b = 0 \/ e1.err THEN e1
                   ELSE AddParams(e1, b, {m} \cup encl, OwnParams[b])
             e3 == IF b = 0 \/ e2.err \/ SubModule[b] = 0 THEN e2
                   ELSE RunInit([e2 EXCEPT !.ninst = @ + 1],
                                LookupInit(initfn, SubModule[b]),
                                e2.ninst + 1, {m} \cup encl, FALSE)
             e4 == IF fail THEN [e3 EXCEPT !.err = TRUE] ELSE e3
         IN  RunWrappers(e4, f.wraps, m)

(***************************************************************************)
(* The run of part II: one process that executes class statements, enters  *)
(* and leaves scopes one after another, and builds modules.                *)
(***************************************************************************)
\* the context whose scope is active, 0 when there is none
Active == IF \E k \in Ctxs : cstatus[k] = "active"
          THEN CHOOSE k \in Ctxs : cstatus[k] = "active" ELSE 0

NoBuild == [cls |-> 0, inst |-> 0, ctx |-> 0, raised |-> FALSE, cbs |-> <<>>,
            first |-> 0, inscope |-> FALSE, exited |-> {}, exitfailed |-> FALSE]

\* out: how __exit__ of the scope went: exc, the exception it was called with
\* ("none" or "construction"); raised, the exception the caller of the with
\* statement receives; steps, the steps of __exit__ that ran to their end
NoExit == [called |-> FALSE, exc |-> "none", raised |-> "none", steps |-> <<>>]

NoEntry == [init |-> <<>>, hook |-> -1, classes |-> {}, out |-> NoExit]

RECURSIVE Ascending(_)
\* the classes of a set in the order of their numbers
Ascending(S) ==
    IF S = {} THEN <<>>
    ELSE LET c == CHOOSE x \in S : \A y \in S : x <= y
         IN  <<c>> \o Ascending(S \ {c})

CtxInit ==
    /\ defined \in SUBSET Classes
    /\ \A c \in defined : Parent[c] = 0 \/ Parent[c] \in defined
    /\ subclasses = Ascending({c \in defined : Parent[c] = 0})
    /\ initfn = [c \in Classes |->
                    IF c \in defined /\ OwnInit[c] THEN Fn(c, <<>>) ELSE NoFn]
    /\ oldinit = [c \in Classes |-> NoFn]
    /\ hook = 0
    /\ oldhook = -1
    /\ cstatus = [k \in Ctxs |-> "new"]
    /\ ccfg \in [shard_param : BOOLEAN, rm : BOOLEAN]
    /\ myrank = W - 1
    /\ ctotal = [k \in Ctxs |-> 0]
    /\ plist = [k \in Ctxs |-> [alive |-> TRUE, items |-> <<>>]]
    /\ params = <<>>
    /\ ninst = 0
    /\ gtracer = [started |-> FALSE, total |-> 0, entries |-> <<>>,
                  asked_absent |-> FALSE]
    /\ builds = 0
    /\ pending = FALSE
    /\ scoped = {}
    /\ last = NoBuild
    /\ centry = [k \in Ctxs |-> NoEntry]

\* a class statement: type.__new__, then Module.__init_subclass__ (lines 41-42
\* when the hook of a context is installed)
DefineClass(c) ==
    /\ UNCHANGED <<shardVars, extVars>>
    /\ ~pending
    /\ c \notin defined
    /\ Parent[c] = 0 \/ Parent[c] \in defined
    /\ defined' = defined \cup {c}
    /\ subclasses' = IF Parent[c] = 0 THEN Append(subclasses, c) ELSE subclasses
    /\ LET own == [initfn EXCEPT ![c] = IF OwnInit[c] THEN Fn(c, <<>>) ELSE NoFn]
       IN  initfn' = IF hook = 0 THEN own
                     ELSE [own EXCEPT ![c] = preprocess_after(hook, LookupInit(own, c))]
    /\ scoped' = IF Active # 0 THEN scoped \cup {c} ELSE scoped
    /\ UNCHANGED <<oldinit, hook, oldhook, cstatus, ccfg, myrank, ctotal, plist,
                   params, ninst, gtracer, builds, pending, last, centry>>

\* lines 22-54 and 128-133: __enter__ of context k, with _pre_context_exec
Enter(k) ==
    /\ UNCHANGED <<shardVars, extVars>>
    /\ ~pending
    /\ cstatus[k] = "new"
    /\ \A j \in 1..(k - 1) : cstatus[j] # "new"
    /\ Active = 0
    /\ LET st == EnableAll([init |-> initfn, old |-> oldinit], subclasses, k)
       IN  /\ initfn' = st.init
           /\ oldinit' = st.old
    /\ oldhook' = hook
    /\ hook' = k
    /\ gtracer' = [started |-> TRUE, total |-> 0, asked_absent |-> FALSE,
                   entries |-> [i \in 1..Len(params) |-> -1]]
    /\ cstatus' = [cstatus EXCEPT ![k] = "active"]
    /\ centry' = [centry EXCEPT ![k] = [init |-> initfn, hook |-> hook,
                                        classes |-> Range(subclasses),
                                        out |-> NoExit]]
    /\ UNCHANGED <<defined, subclasses, ccfg, myrank, ctotal, plist, params, ninst,
                   builds, pending, scoped, last>>

\* cls(...) at top level, inside a scope or after one: the __init__ found on
\* the class is run on a new instance; fail says that the constructor raises
\* at its end (inside a scope, where it decides how the scope is left)
Construct(c, fail) ==
    /\ UNCHANGED <<shardVars, extVars>>
    /\ ~pending
    /\ builds < MaxBuilds
    /\ \E k \in Ctxs : cstatus[k] # "new"
    /\ fail => Active # 0
    /\ c \in defined
    /\ SubModule[c] = 0 \/ SubModule[c] \in defined
    /\ LET es0 == [params |-> params, ninst |-> ninst + 1, ctotal |-> ctotal,
                   plist |-> plist, tr |-> gtracer, cbs |-> <<>>, err |-> FALSE]
       IN  \E es \in {RunInit(es0, LookupInit(initfn, c), ninst + 1, {}, fail)} :
           /\ params' = es.params
           /\ ninst' = es.ninst
           /\ ctotal' = es.ctotal
           /\ plist' = es.plist
           /\ gtracer' = es.tr
           /\ pending' = (es.err /\ Active # 0)
           /\ last' = [cls |-> c, inst |-> ninst + 1, ctx |-> Active,
                       raised |-> es.err, cbs |-> es.cbs, first |-> Len(params) + 1,
                       inscope |-> c \in scoped,
                       exited |-> {k \in Ctxs : cstatus[k] = "exited"},
                       exitfailed |-> \E k \in Ctxs : cstatus[k] = "exit_failed"]
    /\ builds' = builds + 1
    /\ scoped' = IF Active # 0 THEN scoped \cup {c} ELSE scoped
    /\ UNCHANGED <<defined, subclasses, initfn, oldinit, hook, oldhook, cstatus,
                   ccfg, myrank, centry>>

RECURSIVE ReleaseTorch(_, _)
\* lines 139-141: remove_torch_payload for every parameter of the list
ReleaseTorch(ps, l) ==
    IF l = <<>> THEN ps
    ELSE ReleaseTorch([ps EXCEPT ![Head(l)].torch = FALSE,
                                 ![Head(l)].nfree = @ + 1], Tail(l))

\* lines 56-71: what the caller of the with statement gets.  err: line 59
\* raised AttributeError, which ends __exit__ and replaces the exception of
\* the block; otherwise lines 62-68 run, and `return False` (line 71), or the
\* None of a normal exit, lets the exception of the block go on
ExitResult(err, exc) ==
    [called |-> TRUE, exc |-> exc,
     raised |-> IF err THEN "AttributeError" ELSE exc,
     steps  |-> IF err THEN <<>>
                ELSE <<"restore_init", "restore_hook", "post_context_exec">>]

\* lines 56-71 and 135-149: __exit__ of context k, with _post_context_exec;
\* it is called when the with block ends or an exception leaves it
Exit(k) ==
    /\ UNCHANGED <<shardVars, extVars>>
    /\ cstatus[k] = "active"
    /\ LET st == DisableAll([init |-> initfn, old |-> oldinit, err |-> FALSE],
                            subclasses)
       IN  /\ initfn' = st.init
           /\ centry' = [centry EXCEPT ![k].out =
                            ExitResult(st.err, IF pending THEN "construction"
                                                          ELSE "none")]
           /\ IF st.err
              THEN /\ cstatus' = [cstatus EXCEPT ![k] = "exit_failed"]
                   /\ UNCHANGED <<hook, params, plist, gtracer>>
              ELSE /\ cstatus' = [cstatus EXCEPT ![k] = "exited"]
                   /\ hook' = oldhook
                   /\ IF ccfg.rm
                      THEN UNCHANGED <<params, plist>>
                      ELSE /\ params' = ReleaseTorch(params, plist[k].items)
                           /\ plist' = [plist EXCEPT ![k] =
                                           [alive |-> FALSE, items |-> <<>>]]
                   /\ gtracer' = [gtracer EXCEPT !.started = FALSE]
    /\ pending' = FALSE
    /\ UNCHANGED <<defined, subclasses, oldinit, oldhook, ccfg, myrank, ctotal,
                   ninst, builds, scoped, last>>

CtxNext ==
    \/ \E c \in Classes : DefineClass(c)
    \/ \E k \in Ctxs : Enter(k)
    \/ \E c \in Classes, fail \in BOOLEAN : Construct(c, fail)
    \/ \E k \in Ctxs : Exit(k)

(***************************************************************************)
(* Properties of the initialization scope, checked under SpecCtx.          *)
(***************************************************************************)
\* the parameters of the module built last: its own and its submodules'
LastParams == {i \in 1..Len(params) : last.inst \in params[i].insts}

\* C8: a module built inside an active scope has every one of its K
\* parameters wrapped, and each registered with the tracer exactly once,
\* parameters of submodules and of a derived type's constructor included.
C8_AllParamsWrappedOnce ==
    (last.cls # 0 /\ last.ctx # 0 /\ ~last.raised) =>
        \A i \in LastParams : params[i].wrapped /\ params[i].nadd = 1

\* C9: after the scope has exited, building a module of a type that was used
\* or defined inside the scope runs no callback: no parameter of it is
\* wrapped, counted or registered.
C9_NoCallbackAfterExit ==
    (/\ last.cls # 0 /\ last.ctx = 0 /\ last.inscope
     /\ last.exited # {} /\ ~last.exitfailed) =>
        /\ last.cbs = <<>>
        /\ \A i \in LastParams :
               ~params[i].wrapped /\ params[i].ncount = 0 /\ params[i].nadd = 0

\* C10: once __exit__ of a scope has been called, and until another scope is
\* entered, the scope is left, and the subclass-definition hook and the
\* constructor of every class replaced on entry are those of the entry.
C10_ExitRestores ==
    \A k \in Ctxs :
        (/\ cstatus[k] \in {"exited", "exit_failed"}
         /\ \A j \in Ctxs : j > k => cstatus[j] = "new") =>
            /\ cstatus[k] = "exited"
            /\ hook = centry[k].hook
            /\ \A c \in centry[k].classes : initfn[c] = centry[k].init[c]

\* the module instances of the construction done last: the module built and
\* its submodules
LastInsts == UNION {params[i].insts : i \in LastParams}

\* the number of callbacks the last construction ran on instance m
CbCount(m) == Cardinality({j \in 1..Len(last.cbs) : last.cbs[j].inst = m})

\* C11: while a scope is active, the post-construction callback runs exactly
\* once for every module instance constructed, whatever its type: defined
\* before or inside the scope, at any inheritance depth.
C11_CallbackExactlyOnce ==
    (last.cls # 0 /\ last.ctx # 0 /\ ~last.raised) =>
        \A m \in LastInsts : CbCount(m) = 1

\* C15: the per-parameter action is idempotent.  However often a callback
\* meets a parameter, the parameter is counted into the running total at most
\* once, wrapped once, added to the tracer at most once and sharded at most
\* once: its payload is the whole tensor, or one chunk of ceil(numel / W) of
\* it, never a chunk of a chunk.
C15_PostInitIdempotent ==
    \A i \in 1..Len(params) :
        /\ params[i].ncount <= 1
        /\ params[i].nadd <= 1
        /\ params[i].wrapped <=> params[i].ncount = 1
        /\ Len(params[i].payload.data) =
              IF params[i].sharded THEN CeilDiv(params[i].numel, W)
                                   ELSE params[i].numel
        /\ Tracked(gtracer, i) => gtracer.entries[i] = ByteSize(params[i].payload)

\* a Net was built inside a scope that shards: a parameter of its
\* submodule was met by the callback of the submodule and by that of the Net,
\* and is counted, added and sharded once
C15_Witness ==
    /\ last.cls = 4 /\ last.ctx # 0 /\ ~last.raised /\ ccfg.shard_param
    /\ Len(last.cbs) >= 2
    /\ \E i \in LastParams :
          /\ Cardinality(params[i].insts) = 2
          /\ \A m \in params[i].insts : CbCount(m) >= 1
          /\ params[i].ncount = 1 /\ params[i].nadd = 1 /\ params[i].sharded
          /\ Len(params[i].payload.data) < params[i].numel

\* C16: without on-the-fly removal, the pre-wrapping storage of a parameter
\* processed in a scope is held as long as the scope is active, and once
\* __exit__ of the scope has been called it has been released exactly once.
C16_ReleaseOnExit ==
    ~ccfg.rm =>
        \A i \in 1..Len(params) : (params[i].wrapped /\ params[i].inscope) =>
            IF cstatus[params[i].by] = "active"
            THEN params[i].torch /\ params[i].nfree = 0
            ELSE ~params[i].torch /\ params[i].nfree = 1

\* the positions in last.cbs of the callbacks on instance m
CbAt(m) == {j \in 1..Len(last.cbs) : last.cbs[j].inst = m}

\* C25: when a module with a nested submodule is built inside the scope, the
\* callback fires for the submodule before it fires for the module that
\* encloses it, and the enclosing module's callback finds the submodule's
\* parameters already processed: every parameter of the submodule was
\* processed by a callback on the submodule.
C25_InnermostFirst ==
    (last.cls # 0 /\ SubModule[last.cls] # 0 /\ last.ctx # 0 /\ ~last.raised) =>
        LET m   == last.inst
            sub == last.inst + 1
        IN  /\ CbAt(sub) # {} /\ CbAt(m) # {}
            /\ \A i \in CbAt(sub), j \in CbAt(m) : i < j
            /\ \A i \in LastParams : sub \in params[i].insts =>
                  /\ params[i].wrapped
                  /\ params[i].at \in CbAt(sub)

\* the parameters processed by the callback of a scope while it was active
Processed == {i \in 1..Len(params) : params[i].wrapped /\ params[i].inscope}

\* C26: for each newly processed parameter the steps run in the order count,
\* cast, move, wrap, register, shard: the ShardedTensor is registered with the
\* tracer before it is eagerly sharded; when eager sharding is requested every
\* processed parameter's ShardedTensor is marked sharded (from its processing
\* on, so at scope exit too) and holds one chunk, and none is when it is not
\* requested.
C26_StepOrder ==
    \A i \in Processed :
        /\ params[i].steps =
              <<"count", "cast", "move", "wrap", "register">>
                 \o (IF ccfg.shard_param THEN <<"shard">> ELSE <<>>)
        /\ params[i].sharded = ccfg.shard_param
        /\ params[i].nadd = 1 /\ params[i].ncount = 1
        /\ Len(params[i].payload.data) =
              IF ccfg.shard_param THEN CeilDiv(params[i].numel, W)
                                  ELSE params[i].numel

\* a scope with eager sharding has exited: the two parameters of a Derived
\* built in it were registered, then sharded, and are marked sharded
C26_Witness ==
    /\ ccfg.shard_param /\ cstatus[1] = "exited"
    /\ last.cls = 2 /\ last.ctx = 1 /\ ~last.raised
    /\ Cardinality(LastParams) = 2
    /\ \A i \in LastParams :
          /\ i \in Processed
          /\ params[i].steps[5] = "register" /\ params[i].steps[6] = "shard"
          /\ params[i].sharded
          /\ Len(params[i].payload.data) < params[i].numel

\* the element counts, full and unsharded, of the parameters processed by the
\* callback of context k while its scope was active, each taken once
ScopeNumel(k) ==
    Sum([i \in 1..Len(params) |->
            IF i \in Processed /\ params[i].by = k THEN params[i].numel ELSE 0])

\* C27: when the scope exits, the running total has grown by exactly the sum
\* of the element counts of the distinct parameters processed in the scope,
\* each counted once with its full unsharded element count.  The total starts
\* at 0; it is that sum as long as the scope is active, and __exit__ leaves it
\* with that value.
C27_TotalAtExit ==
    [][\A k \in Ctxs : cstatus[k] = "active" =>
          /\ ctotal[k] = ScopeNumel(k)
          /\ cstatus'[k] # "active" =>
                /\ ctotal'[k] = ScopeNumel(k)'
                /\ ctotal'[k] = ctotal[k]]_vars

\* a scope with eager sharding has exited after a Net was built in it: its
\* three parameters, one of them met by three callbacks, are counted once
\* each with their full size, more than the elements the payloads still hold
C27_Witness ==
    /\ cstatus[1] = "exited" /\ ccfg.shard_param /\ W = 2
    /\ last.cls = 4 /\ last.ctx = 1 /\ ~last.raised /\ Len(last.cbs) = 3
    /\ Cardinality(LastParams) = 3 /\ LastParams \subseteq Processed
    /\ ctotal[1] >= Sum([i \in 1..Len(params) |->
                            IF i \in LastParams THEN params[i].numel ELSE 0])
    /\ ctotal[1] = ScopeNumel(1)
    /\ ctotal[1] > Sum([i \in 1..Len(params) |-> Len(params[i].payload.data)])

\* C28: the context starts the tracer on entry, before any parameter is
\* registered, and closes it on exit, after the backing storage of the
\* processed parameters is released; after that close the context registers
\* no further tensor with the tracer.  The tracer is started while a scope is
\* active; every add_tensor call of a callback finds it started; once
\* __exit__ has been called and no scope is active it is closed and the
\* parameters processed in the scope hold no backing storage.
C28_TracerLifecycle ==
    /\ (\E k \in Ctxs : cstatus[k] = "active") => gtracer.started
    /\ \A i \in 1..Len(params) : params[i].nadd > 0 => params[i].open
    /\ (/\ \E k \in Ctxs : cstatus[k] \in {"exited", "exit_failed"}
        /\ \A k \in Ctxs : cstatus[k] # "active") =>
            /\ ~gtracer.started
            /\ \A i \in Processed : ~params[i].torch

\* C29: an exception raised by construction inside the scope reaches the
\* caller after exit has run: exit never swallows it, and it runs the same
\* restoration and post-scope steps as on a normal exit.  For every scope
\* whose __exit__ was called with the exception of a construction: the caller
\* receives that exception, all steps of __exit__ have run, and the scope is
\* left restored, closed and released as by a normal exit.
C29_ExceptionPropagates ==
    \A k \in Ctxs : (centry[k].out.called /\ centry[k].out.exc = "construction") =>
        /\ centry[k].out.raised = "construction"
        /\ centry[k].out.steps = <<"restore_init", "restore_hook", "post_context_exec">>
        /\ cstatus[k] = "exited"

(***************************************************************************)
(* Part III.  col_model_deepcopy, zero/sharded_model/utils.py 7-19.  The    *)
(* sharded model's parameters are the tensors of Part I, in order; the     *)
(* call runs on every rank; sharded_model.shard_strategy is the chunk      *)
(* strategy or the bucket strategy.                                        *)
(***************************************************************************)
\* sharded_model.parameters(), zipped with other_model.parameters()
AllParams == [i \in 1..Cardinality(Tensors) |-> i]

CopyOps == {"deepcopy", "deepcopy_bucket"}

\* param.data of the other model before the call: its own values
OtherData(t) == Tensor(Zeros(numel[t]), oshape[t])

CopyInit == other = [r \in Ranks |-> [t \in Tensors |-> OtherData(t)]]

\* mutant of lines 18-19: the parameter stays gathered
CopyStep_noshard(st, t, r) == st

\* lines 18-19: `if shard_flag: sharded_model.shard_strategy.shard([tensor])`
CopyStep_shard(st, t, r) == shard_list(st, <<t>>, r)

\* the call starts on every rank (line 12: the loop over the zipped parameters)
StartCopy(op) ==
    /\ op \in CopyOps
    /\ StartCall(op, AllParams)
    /\ UNCHANGED copyVars

\* lines 12-16 for the next parameter: one without shard flag is copied as it
\* is (line 17) and the loop goes on; one with the flag enters the gather of
\* line 16 up to its all_gather
CopyEnter(r) ==
    /\ UNCHANGED <<ctxVars, notCopy, tcall>>
    /\ pc[r] = "run" /\ call.op \in CopyOps
    /\ LET j == idx[r] + 1
           t == call.list[j]
       IN  IF j > Len(call.list) \/ failed[r]
           THEN /\ pc' = [pc EXCEPT ![r] = "done"]
                /\ UNCHANGED <<numel, oshape, payload, sharded, tracer, failed,
                               idx, locals, sent, other>>
           ELSE IF ~sharded[r][t]
           THEN /\ other' = [other EXCEPT ![r][t] = payload[r][t]]
                /\ idx' = [idx EXCEPT ![r] = j]
                /\ locals' = [locals EXCEPT ![r].ops = Append(@, <<"copy", t>>)]
                /\ UNCHANGED <<numel, oshape, payload, sharded, tracer, failed,
                               pc, sent>>
           ELSE IF call.op = "deepcopy"
           THEN /\ pc' = [pc EXCEPT ![r] = "coll"]
                /\ idx' = [idx EXCEPT ![r] = j]
                /\ sent' = [sent EXCEPT ![r] = Append(@, payload[r][t].data)]
                /\ locals' = [locals EXCEPT ![r].ops = Append(@, <<"gather", t>>)]
                /\ UNCHANGED <<numel, oshape, payload, sharded, tracer, failed,
                               other>>
           ELSE LET b == BucketBefore(RankState(r), <<t>>)
                IN  /\ SetRank(r, b.st)
                    /\ idx' = [idx EXCEPT ![r] = j]
                    /\ locals' = [locals EXCEPT
                                    ![r] = [tl |-> b.tl, nums |-> b.nums,
                                            ops |-> Append(@.ops, <<"gather", t>>)]]
                    /\ IF b.st.failed
                       THEN UNCHANGED <<pc, sent>>
                       ELSE /\ pc' = [pc EXCEPT ![r] = "coll"]
                            /\ sent' = [sent EXCEPT ![r] = Append(@, b.buffer)]
                    /\ UNCHANGED other
    /\ UNCHANGED <<W, call, hist>>

\* the rest of the gather of line 16 once all_gather has returned, the copy of
\* line 17 and the shard of lines 18-19
CopyFinish(r) ==
    /\ UNCHANGED <<ctxVars, notCopy, tcall>>
    /\ pc[r] = "coll" /\ call.op \in CopyOps
    /\ Arrived(r)
    /\ LET t  == call.list[idx[r]]
           bl == BufferList(r)
           g  == IF ~SameSizes(bl) THEN [RankState(r) EXCEPT !.failed = TRUE]
                 ELSE IF call.op = "deepcopy"
                      THEN gather_tensor(RankState(r), t, bl)
                      ELSE BucketAfter(RankState(r), locals[r].tl, locals[r].nums, bl)
       IN  IF g.failed
           THEN /\ SetRank(r, g)
                /\ UNCHANGED <<other, locals>>
           ELSE /\ other' = [other EXCEPT ![r][t] = g.payload[t]]
                /\ SetRank(r, CopyStep_shard(g, t, r))
                /\ locals' = [locals EXCEPT
                                ![r].ops = @ \o <<<<"copy", t>>, <<"shard", t>>>>]
    /\ pc' = [pc EXCEPT ![r] = "run"]
    /\ UNCHANGED <<W, call, idx, sent, hist>>

\* a model whose parameters were sharded, all or some, by the strategy's
\* shard, and col_model_deepcopy calls on it
CopyNext ==
    \/ \E l \in Lists : StartCall("shard", l)
    \/ \E r \in Ranks : Shard(r)
    \/ \E op \in CopyOps : StartCopy(op)
    \/ \E r \in Ranks : CopyEnter(r)
    \/ \E r \in Ranks : CopyFinish(r)

\* the call of col_model_deepcopy has returned on every rank
CopyReturned == call.op \in CopyOps /\ AllDone

\* C32: col_model_deepcopy gathers each sharded parameter, copies its full
\* payload into the matching parameter of the other model, then shards it
\* again: once the call has returned, no rank has failed, every parameter's
\* is_sharded flag and local payload are what they were before the call, the
\* other model's parameter holds the full unsharded payload, a parameter that
\* was sharded was gathered, copied and sharded in this order, and one that
\* was unsharded was only copied.
C32_DeepcopyRestoresShards ==
    CopyReturned =>
        \A r \in Ranks :
            /\ ~failed[r]
            /\ sharded[r] = hist.sharded0[r]
            /\ payload[r] = hist.payload0[r]
            /\ other[r] = hist.expect[r]
            /\ locals[r].ops =
                  Cat([i \in 1..Len(AllParams) |->
                         IF hist.sharded0[r][AllParams[i]]
                         THEN <<<<"gather", AllParams[i]>>, <<"copy", AllParams[i]>>,
                                <<"shard", AllParams[i]>>>>
                         ELSE <<<<"copy", AllParams[i]>>>>])

\* W = 2, the call has returned: parameter 1, of 3 elements, was and is
\* sharded, rank 1 holds its chunk of 2 with one element of padding and the
\* other model holds the 3 values; parameter 2 was and is unsharded
C32_Witness ==
    /\ CopyReturned /\ W = 2
    /\ hist.sharded0[1][1] /\ sharded[1][1] /\ ~hist.sharded0[1][2]
    /\ numel[1] = 3 /\ numel[2] > 0
    /\ payload[1][1].data = <<103, 0>>
    /\ other[1][1].data = <<101, 102, 103>>
    /\ other[1][2] = payload[1][2]

(***************************************************************************)
(* Part IV.  Pipeline point-to-point communication, communication/p2p.py.  *)
(* A linear pipeline of pcfg.stages stages; every stage is a tensor-       *)
(* parallel group of pcfg.tpw ranks that make the same calls together.     *)
(* Every stage runs, for each micro-batch, recv_forward, send_forward,     *)
(* recv_backward, send_backward with tensors of pcfg.n elements.           *)
(***************************************************************************)
Stages == 0..(pcfg.stages - 1)

TPRanks == 1..pcfg.tpw

\* mutant of is_pipeline_first_stage: no stage counts as the first
is_pipeline_first_stage_never(s) == FALSE

\* gpc.is_pipeline_first_stage(), gpc.is_pipeline_last_stage()
is_pipeline_first_stage(s) == s = 0

is_pipeline_last_stage(s) == s = pcfg.stages - 1

\* gpc.get_prev_global_rank, gpc.get_next_global_rank (lines 91, 96): the
\* neighbours in the ring of pipeline stages
PrevStage(s) == (s + pcfg.stages - 1) % pcfg.stages

NextStage(s) == (s + 1) % pcfg.stages

\* mutant of _get_tensor_shape: a chunk whenever scatter-gather is requested
\* (line 32 taken as true)
get_tensor_shape_nodiv(tensor_shape, chunk_tensor) ==
    IF chunk_tensor
    THEN [shape |-> <<Prod(tensor_shape) \div pcfg.tpw>>, split |-> TRUE]
    ELSE [shape |-> tensor_shape, split |-> FALSE]

\* _get_tensor_shape, lines 19-39; torch.empty of the integer of line 33 is
\* a 1D tensor of that many elements
get_tensor_shape(tensor_shape, chunk_tensor) ==
    IF chunk_tensor /\ Prod(tensor_shape) % pcfg.tpw = 0
    THEN [shape |-> <<Prod(tensor_shape) \div pcfg.tpw>>, split |-> TRUE]
    ELSE [shape |-> tensor_shape, split |-> FALSE]

\* split_tensor_into_1d_equal_chunks on tensor-parallel rank r: the r-th of
\* the equal parts of the flattened tensor
split_tensor_into_1d_equal_chunks(data, r) ==
    LET k == Len(data) \div pcfg.tpw
    IN  Slice(data, (r - 1) * k, r * k)

\* gather_split_1d_tensor: the chunks of the group's ranks, in rank order
gather_split_1d_tensor(bufs) == Cat(bufs)

\* the tensor stage s sends for micro-batch m: output forward, gradient backward
SendData(s, m, fn) ==
    [i \in 1..pcfg.n |->
        1000 * (s + 1) + 100 * m + i + (IF fn = "send_backward" THEN 50 ELSE 0)]

\* lines 99-107 and 110-121: what isend is given on each rank of the group
SendBuffers(data, shape) ==
    LET d == get_tensor_shape(shape, pcfg.sg)
    IN  [split |-> d.split,
         bufs  |-> [r \in TPRanks |->
                      IF d.split THEN split_tensor_into_1d_equal_chunks(data, r)
                      ELSE data]]

\* lines 74-87 and 129-132 on the receiving group: the buffers of line 77 or
\* 84 are filled by irecv with what the sender's isend was given on the same
\* tensor-parallel rank; a chunk is gathered and viewed in the requested shape
Received(msg, shape) ==
    LET d == get_tensor_shape(shape, pcfg.sg)
        g == gather_split_1d_tensor(msg.bufs)
    IN  [ok    |-> /\ \A r \in TPRanks : Len(msg.bufs[r]) = Prod(d.shape)
                   /\ d.split => CanView(g, shape),
         split |-> d.split,
         ret   |-> [r \in TPRanks |->
                      IF d.split THEN Tensor(g, shape)
                      ELSE Tensor(msg.bufs[r], d.shape)]]

Schedule == <<"recv_forward", "send_forward", "recv_backward", "send_backward">>

\* the function stage s calls at position pos, and its micro-batch
FnAt(pos) == Schedule[(pos % 4) + 1]

MicroAt(pos) == (pos \div 4) + 1

StageDone(s) == pstage[s].pos = 4 * pcfg.micro

PipeFinished == \A s \in Stages : StageDone(s)

\* lines 146, 167, 186, 200: the call returns without calling _communicate
SkipsComm(s, fn) ==
    \/ fn \in {"recv_forward", "send_backward"} /\ is_pipeline_first_stage(s)
    \/ fn \in {"recv_backward", "send_forward"} /\ is_pipeline_last_stage(s)

\* the stage a call of fn on stage s sends to or receives from
Peer(s, fn) == IF fn \in {"recv_forward", "send_backward"} THEN PrevStage(s)
               ELSE NextStage(s)

\* a completed call: the function, the number of P2P operations handed to
\* batch_isend_irecv, the peer, what a receive returned on every rank of the
\* group, whether the receive buffers fitted, and the whole-or-chunk decision
\* of the receiver (split) and of the sender of the message (msplit)
CallEntry(fn, comm, peer, ret, ok, split, msplit) ==
    [fn |-> fn, comm |-> comm, peer |-> peer, ret |-> ret, ok |-> ok,
     split |-> split, msplit |-> msplit]

Returned(s, e) ==
    pstage' = [pstage EXCEPT ![s] = [pos |-> @.pos + 1, wait |-> "no",
                                     log |-> Append(@.log, e)]]

PipeInit ==
    /\ pcfg \in [stages : 1..MaxStages, tpw : 1..MaxW, n : 0..MaxNumel,
                 rshape : UNION {ShapesOf(n) : n \in 0..MaxNumel},
                 sshape : UNION {ShapesOf(n) : n \in 0..MaxNumel},
                 sg : BOOLEAN, rendezvous : BOOLEAN, micro : 1..MaxMicro]
    /\ pcfg.rshape \in ShapesOf(pcfg.n) /\ pcfg.sshape \in ShapesOf(pcfg.n)
    /\ pstage = [s \in Stages |-> [pos |-> 0, wait |-> "no", log |-> <<>>]]
    /\ chan = [pr \in Stages \X Stages |-> <<>>]

\* the stage makes its next call: recv_forward (136-154), send_forward
\* (178-189), recv_backward (157-175) or send_backward (192-203), up to the
\* wait of line 125
PipeCall(s) ==
    /\ UNCHANGED <<shardVars, ctxVars, notPipe>>
    /\ pstage[s].wait = "no" /\ ~StageDone(s)
    /\ LET fn   == FnAt(pstage[s].pos)
           peer == Peer(s, fn)
       IN  IF SkipsComm(s, fn)
           THEN /\ Returned(s, CallEntry(fn, 0, peer, None, TRUE, FALSE, FALSE))
                /\ UNCHANGED chan
           ELSE IF fn \in {"recv_forward", "recv_backward"}
           THEN /\ pstage' = [pstage EXCEPT ![s].wait = "recv"]
                /\ UNCHANGED chan
           ELSE /\ chan' = [chan EXCEPT ![<<s, peer>>] =
                              Append(@, SendBuffers(SendData(s, MicroAt(pstage[s].pos), fn),
                                                    pcfg.sshape))]
                /\ IF pcfg.rendezvous
                   THEN pstage' = [pstage EXCEPT ![s].wait = "send"]
                   ELSE Returned(s, CallEntry(fn, 1, peer, None, TRUE, FALSE, FALSE))
    /\ UNCHANGED pcfg

\* req.wait() of an irecv returns: the message has arrived (lines 123-133)
PipeRecvDone(s) ==
    /\ UNCHANGED <<shardVars, ctxVars, notPipe>>
    /\ pstage[s].wait = "recv"
    /\ LET fn   == FnAt(pstage[s].pos)
           peer == Peer(s, fn)
       IN  /\ chan[<<peer, s>>] # <<>>
           /\ LET msg == Head(chan[<<peer, s>>])
                  rc  == Received(msg, pcfg.rshape)
              IN  Returned(s, CallEntry(fn, 1, peer, rc.ret, rc.ok, rc.split, msg.split))
           /\ chan' = [chan EXCEPT ![<<peer, s>>] = Tail(@)]
    /\ UNCHANGED pcfg

\* req.wait() of an isend that completes only once the peer has received
PipeSendDone(s) ==
    /\ UNCHANGED <<shardVars, ctxVars, notPipe>>
    /\ pstage[s].wait = "send"
    /\ LET fn   == FnAt(pstage[s].pos)
           peer == Peer(s, fn)
       IN  /\ chan[<<s, peer>>] = <<>>
           /\ Returned(s, CallEntry(fn, 1, peer, None, TRUE, FALSE, FALSE))
    /\ UNCHANGED <<pcfg, chan>>

PipeNext ==
    \/ \E s \in Stages : PipeCall(s)
    \/ \E s \in Stages : PipeRecvDone(s)
    \/ \E s \in Stages : PipeSendDone(s)

\* the completed calls of fn on stage s that took part in communication
CommCalls(s, fn) ==
    {k \in 1..Len(pstage[s].log) :
        pstage[s].log[k].fn = fn /\ pstage[s].log[k].comm > 0}

\* C33: a pipeline receive that takes part in communication returns a tensor
\* of exactly the requested shape, both when the tensor travels whole and
\* when it travels as a 1D chunk (scatter-gather requested and element count
\* divisible by the tensor-parallel world size); sender and receiver given
\* the same shape make the same whole-or-chunk decision.  For every completed
\* receive with a P2P operation, on every rank of the group: the buffers
\* fitted, the returned tensor has the requested shape and as many values,
\* the receiver decided for the chunk exactly when scatter-gather is on and
\* the count is divisible, and the sender of the message decided the same.
C33_ReceiveHasRequestedShape ==
    \A s \in Stages : \A k \in 1..Len(pstage[s].log) :
        LET e == pstage[s].log[k]
        IN  (e.fn \in {"recv_forward", "recv_backward"} /\ e.comm > 0) =>
                /\ e.ok
                /\ e.split = (pcfg.sg /\ pcfg.n % pcfg.tpw = 0)
                /\ e.msplit = e.split
                /\ \A r \in TPRanks :
                      /\ e.ret[r].present
                      /\ e.ret[r].shape = pcfg.rshape
                      /\ Len(e.ret[r].data) = Prod(pcfg.rshape)
                      /\ e.ret[r].data =
                            SendData(e.peer, MicroAt(k - 1),
                                     IF e.fn = "recv_forward" THEN "send_forward"
                                     ELSE "send_backward")

\* stage 1 of a group of 2 ranks received a tensor of 4 elements as chunks of
\* 2 and returned it in the requested shape 2 x 2
C33_Witness ==
    /\ pcfg # <<>> /\ pcfg.stages >= 2 /\ pcfg.tpw = 2 /\ pcfg.sg
    /\ pcfg.rshape = <<2, 2>> /\ pcfg.sshape = <<4>>
    /\ Len(pstage[1].log) >= 1
    /\ pstage[1].log[1].fn = "recv_forward" /\ pstage[1].log[1].split
    /\ pstage[1].log[1].ret[2] = Tensor(<<1101, 1102, 1103, 1104>>, <<2, 2>>)

\* the messages stage s has handed to isend in calls of fn so far
Issued(s, fn) ==
    Cardinality(CommCalls(s, fn))
        + (IF pstage[s].wait = "send" /\ FnAt(pstage[s].pos) = fn THEN 1 ELSE 0)

\* calls at the ends of the pipeline return None, or nothing, without a P2P
\* operation; the messages of every send are those received by the matching
\* receive of the neighbour or still on their way to it, and no message is
\* on its way between other stages
PipeMatched ==
    /\ \A s \in Stages : \A k \in 1..Len(pstage[s].log) :
          LET e == pstage[s].log[k]
          IN  /\ (is_pipeline_first_stage(s) /\ e.fn \in {"recv_forward", "send_backward"})
                    => e.comm = 0 /\ e.ret = None
              /\ (is_pipeline_last_stage(s) /\ e.fn \in {"recv_backward", "send_forward"})
                    => e.comm = 0 /\ e.ret = None
    /\ \A s, d \in Stages :
          IF d = s + 1
          THEN Issued(s, "send_forward") =
                 Cardinality(CommCalls(d, "recv_forward")) + Len(chan[<<s, d>>])
          ELSE IF d = s - 1
          THEN Issued(s, "send_backward") =
                 Cardinality(CommCalls(d, "recv_backward")) + Len(chan[<<s, d>>])
          ELSE chan[<<s, d>>] = <<>>
    /\ \A s \in Stages : StageDone(s) =>
          /\ ~is_pipeline_last_stage(s) =>
                Cardinality(CommCalls(s, "send_forward")) = pcfg.micro
          /\ ~is_pipeline_first_stage(s) =>
                Cardinality(CommCalls(s, "send_backward")) = pcfg.micro

\* C34: in a linear pipeline, recv_forward on the first stage and
\* recv_backward on the last stage return None without communicating, and
\* send_forward on the last stage and send_backward on the first stage send
\* nothing; so every send_forward issued by stage i is matched by a receive on
\* stage i+1 and every send_backward by a receive on stage i-1, and no stage
\* waits for a message that is never sent: the sends and receives match at
\* every moment, and every stage completes its schedule with nothing left
\* in flight.
C34_LinearPipelineMatches ==
    /\ []PipeMatched
    /\ <>(PipeFinished /\ \A pr \in Stages \X Stages : chan[pr] = <<>>)

\* three stages have completed: the first received no input and sent no
\* gradient, the middle one made four exchanges, the last sent no output
C34_Witness ==
    /\ pcfg # <<>> /\ pcfg.stages = 3 /\ PipeFinished
    /\ pstage[0].log[1].comm = 0 /\ pstage[0].log[1].ret = None
    /\ pstage[0].log[2].comm = 1 /\ pstage[0].log[4].comm = 0
    /\ \A k \in 1..4 : pstage[1].log[k].comm = 1
    /\ pstage[2].log[2].comm = 0 /\ pstage[2].log[3].ret = None
    /\ pstage[2].log[4].comm = 1

(***************************************************************************)
(* Part V.  MultiTimer and Timer, utils/timer.py.  mtimer holds _on, the   *)
(* dictionary _timers (a timer that is not in it has exists = FALSE) and   *)
(* rcall, the call of MultiTimer.reset when it is the last call made.      *)
(***************************************************************************)
TimerNames == {"fwd", "bwd"}

\* the start-stop intervals the clock can give
Durations == 1..2

\* a key that is not in _timers
NoTimer == [exists |-> FALSE, started |-> FALSE, elapsed |-> 0, history |-> <<>>]

\* Timer.__init__, lines 12-16
NewTimer == [exists |-> TRUE, started |-> FALSE, elapsed |-> 0, history |-> <<>>]

\* Timer.start, lines 27-33
timer_start(t) == [t EXCEPT !.elapsed = 0, !.started = TRUE]

\* Timer.stop, lines 40-55
timer_stop(t, keep_in_history, d) ==
    [t EXCEPT !.history = IF keep_in_history THEN Append(@, d) ELSE @,
              !.elapsed = d, !.started = FALSE]

\* Timer.reset, lines 84-89
timer_reset(t) == [t EXCEPT !.history = <<>>, !.started = FALSE, !.elapsed = 0]

NoReset == [called |-> FALSE, name |-> "None", raised |-> "", before |-> <<>>]

TimerInit ==
    /\ mtimer \in [on : BOOLEAN, timers : {[n \in TimerNames |-> NoTimer]},
                   rcall : {NoReset}]

\* MultiTimer.start, lines 103-112
MTStart(name) ==
    /\ UNCHANGED <<shardVars, ctxVars, notTimer>>
    /\ mtimer' = IF mtimer.on
                 THEN [mtimer EXCEPT
                         !.timers[name] = timer_start(IF @.exists THEN @ ELSE NewTimer),
                         !.rcall = NoReset]
                 ELSE [mtimer EXCEPT !.rcall = NoReset]

\* MultiTimer.stop, lines 114-125, of a timer that was started by name
MTStop(name, keep_in_history, d) ==
    /\ UNCHANGED <<shardVars, ctxVars, notTimer>>
    /\ mtimer.on => mtimer.timers[name].exists
    /\ keep_in_history => Len(mtimer.timers[name].history) < MaxLaps
    /\ mtimer' = IF mtimer.on
                 THEN [mtimer EXCEPT
                         !.timers[name] = timer_stop(@, keep_in_history, d),
                         !.rcall = NoReset]
                 ELSE [mtimer EXCEPT !.rcall = NoReset]

\* the keys of _timers
TimerKeys(mt) == {n \in TimerNames : mt.timers[n].exists}

\* MultiTimer.reset, lines 136-147.  With a name, line 144 looks the timer up
\* (KeyError when it is absent) and resets it.  Without one, the loop of line
\* 146 runs over the dictionary, that is over its keys: line 147 calls reset
\* on a str, which raises AttributeError at the first key.
multitimer_reset(mt, name) ==
    IF ~mt.on THEN [mt |-> mt, raised |-> ""]
    ELSE IF name # "None"
         THEN IF mt.timers[name].exists
              THEN [mt |-> [mt EXCEPT !.timers[name] = timer_reset(@)], raised |-> ""]
              ELSE [mt |-> mt, raised |-> "KeyError"]
         ELSE IF TimerKeys(mt) = {}
              THEN [mt |-> mt, raised |-> ""]
              ELSE [mt |-> mt, raised |-> "AttributeError"]

MTReset(name) ==
    /\ UNCHANGED <<shardVars, ctxVars, notTimer>>
    /\ LET res == multitimer_reset(mtimer, name)
       IN  mtimer' = [res.mt EXCEPT
                         !.rcall = [called |-> TRUE, name |-> name,
                                    raised |-> res.raised,
                                    before |-> mtimer.timers]]

TimerNext ==
    \/ \E name \in TimerNames : MTStart(name)
    \/ \E name \in TimerNames, keep \in BOOLEAN, d \in Durations : MTStop(name, keep, d)
    \/ \E name \in TimerNames \cup {"None"} : MTReset(name)

\* C35: MultiTimer.reset called without a name, on an enabled MultiTimer
\* holding one or more timers, resets every timer (empty history, not
\* started, elapsed 0) without error; called with a name it resets that timer
\* and leaves the others unchanged.
C35_ResetWithoutName ==
    (mtimer.rcall.called /\ mtimer.on) =>
        LET c == mtimer.rcall
            held == {n \in TimerNames : c.before[n].exists}
        IN  /\ (c.name = "None" /\ held # {}) =>
                  /\ c.raised = ""
                  /\ \A n \in held : mtimer.timers[n] = NewTimer
            /\ c.name \in held =>
                  /\ c.raised = ""
                  /\ mtimer.timers[c.name] = NewTimer
                  /\ \A n \in TimerNames \ {c.name} : mtimer.timers[n] = c.before[n]

(***************************************************************************)
(* Part VI.  Two ZeroInitContext instances, init_context.py 22-68, 107-126 *)
(* and 156-161: what one scope does to the other.  The module classes are *)
(* direct subclasses of torch.nn.Module defined before any scope.  A       *)
(* constructor is the sequence of the contexts whose wrappers are around   *)
(* the class's own __init__, outermost first.                              *)
(***************************************************************************)
NestCtxs == {1, 2}

NestClasses == {1, 2}

\* elements of the one parameter a module of class c creates
NestNumel(c) == c + 1

\* a class without the attribute _old_init
Unset == <<0>>

\* the tensor objects that hold a running total: object 0 is the default of
\* line 114, created once when the def statement of __init__ is executed;
\* object k is a tensor the caller passes to context k
TotalObjects == {0} \cup NestCtxs

\* ZeroInitContext.__init__, lines 114 and 125: the tensor the context keeps
total_object(k, supplied) == IF supplied THEN k ELSE 0

\* self.model_numel_tensor of context k, as it reads now
Reported(k) == nest.tensors[nest.ref[k]]

NestInit ==
    nest = [status   |-> [k \in NestCtxs |-> "none"],
            supplied |-> [k \in NestCtxs |-> FALSE],
            ref      |-> [k \in NestCtxs |-> 0],
            tensors  |-> [o \in TotalObjects |-> 0],
            start    |-> [k \in NestCtxs |-> 0],
            counted  |-> [k \in NestCtxs |-> 0],
            init     |-> [c \in NestClasses |-> <<>>],
            old      |-> [c \in NestClasses |-> Unset],
            hook     |-> 0,
            oldhook  |-> -1,
            stack    |-> <<>>,
            nested   |-> FALSE,
            base     |-> [init |-> <<>>, hook |-> 0],
            builds   |-> 0]

\* ZeroInitContext(...), lines 107-126, with or without model_numel_tensor
NCreate(k, supplied) ==
    /\ UNCHANGED <<shardVars, ctxVars, notNest>>
    /\ nest.status[k] = "none"
    /\ \E o \in {total_object(k, supplied)} :
          nest' = [nest EXCEPT !.status[k] = "new",
                               !.supplied[k] = supplied,
                               !.ref[k] = o,
                               !.start[k] = nest.tensors[o]]

\* __enter__, lines 22-54: _enable_class for every subclass (37-38), then the
\* hook (50, 52).  base is what was in place when the outermost scope was
\* entered.
NEnter(k) ==
    /\ UNCHANGED <<shardVars, ctxVars, notNest>>
    /\ nest.status[k] = "new"
    /\ nest' = [nest EXCEPT
                  !.status[k] = "active",
                  !.old = nest.init,
                  !.init = [c \in NestClasses |-> <<k>> \o nest.init[c]],
                  !.oldhook = nest.hook,
                  !.hook = k,
                  !.stack = <<k>> \o @,
                  !.nested = @ \/ nest.stack # <<>>,
                  !.base = IF nest.stack = <<>>
                           THEN [init |-> nest.init, hook |-> nest.hook] ELSE @]

RECURSIVE PostInits(_, _, _, _)
\* wrapper, lines 30-32, for the chain f of wrappers around a constructor: the
\* inner function runs first, then self._post_init_method(module) of the
\* wrapper's context.  _post_init_method, lines 156-161: a parameter that has
\* col_attr is skipped, another is added to the total, in place, and adapted.
PostInits(f, n, st, has_col_attr) ==
    IF f = <<>> THEN st
    ELSE LET k == f[Len(f)]
         IN  PostInits(SubSeq(f, 1, Len(f) - 1), n,
                       IF has_col_attr THEN st
                       ELSE [st EXCEPT !.tensors[st.ref[k]] = @ + n,
                                       !.counted[k] = @ + n],
                       TRUE)

\* a module of class c is constructed inside a scope
NConstruct(c) ==
    /\ UNCHANGED <<shardVars, ctxVars, notNest>>
    /\ nest.stack # <<>>
    /\ nest.builds < MaxBuilds
    /\ nest' = [PostInits(nest.init[c], NestNumel(c), nest, FALSE)
                  EXCEPT !.builds = @ + 1]

\* __exit__, lines 56-68, of the scope entered last: _disable_class for every
\* subclass (59), then the hook (66)
NExit ==
    /\ UNCHANGED <<shardVars, ctxVars, notNest>>
    /\ nest.stack # <<>>
    /\ nest' = [nest EXCEPT
                  !.status[Head(nest.stack)] = "exited",
                  !.init = nest.old,
                  !.hook = nest.oldhook,
                  !.stack = Tail(@)]

NestNext ==
    \/ \E k \in NestCtxs, supplied \in BOOLEAN : NCreate(k, supplied)
    \/ \E k \in NestCtxs : NEnter(k)
    \/ \E c \in NestClasses : NConstruct(c)
    \/ NExit

\* C36: two ZeroInitContext instances created without a caller-supplied
\* running total keep independent totals: each starts at zero, and parameters
\* processed in one scope do not change the total reported by the other.
\* Whenever both exist, each read zero when it was created and each reports
\* the elements of the parameters it has processed itself.
C36_IndependentTotals ==
    (\A k \in NestCtxs : nest.status[k] # "none" /\ ~nest.supplied[k]) =>
        \A k \in NestCtxs :
            /\ nest.start[k] = 0
            /\ Reported(k) = nest.counted[k]

\* C37: when one scope is entered while another is still active (nested
\* scopes), after both have exited every module type's constructor and the
\* subclass-definition hook are the ones in place before the outer scope was
\* entered.
C37_NestedScopesRestore ==
    (nest.nested /\ \A k \in NestCtxs : nest.status[k] = "exited") =>
        /\ nest.init = nest.base.init
        /\ nest.hook = nest.base.hook

(***************************************************************************)
(* The specifications.  Each part runs with the other parts at rest.       *)
(***************************************************************************)
\* no copy into another model
CopyRest == other = <<>>

\* no pipeline
PipeRest == pcfg = <<>> /\ pstage = <<>> /\ chan = <<>>

\* no timer
TimerRest == mtimer = <<>>

\* no second scope
NestRest == nest = <<>>

ExtRest == PipeRest /\ TimerRest /\ NestRest

CtxRest ==
    /\ defined = {} /\ subclasses = <<>>
    /\ initfn = [c \in Classes |-> NoFn] /\ oldinit = [c \in Classes |-> NoFn]
    /\ hook = 0 /\ oldhook = -1
    /\ cstatus = [k \in Ctxs |-> "new"]
    /\ ccfg = [shard_param |-> FALSE, rm |-> FALSE]
    /\ myrank = 0
    /\ ctotal = [k \in Ctxs |-> 0]
    /\ plist = [k \in Ctxs |-> [alive |-> TRUE, items |-> <<>>]]
    /\ params = <<>> /\ ninst = 0
    /\ gtracer = [started |-> FALSE, total |-> 0, entries |-> <<>>,
                  asked_absent |-> FALSE]
    /\ builds = 0 /\ pending = FALSE /\ scoped = {}
    /\ last = NoBuild
    /\ centry = [k \in Ctxs |-> NoEntry]

ShardRest ==
    /\ W = MaxW
    /\ numel = [t \in Tensors |-> 0]
    /\ oshape = [t \in Tensors |-> <<0>>]
    /\ payload = <<>> /\ sharded = <<>> /\ tracer = <<>>
    /\ call = [op |-> "none", list |-> <<>>]
    /\ pc = <<>> /\ idx = <<>> /\ locals = <<>> /\ sent = <<>> /\ failed = <<>>
    /\ hist = <<>> /\ tcall = NoCall

\* neither the sharding engine nor a scope nor a copy
PartsRest == ShardRest /\ CtxRest /\ CopyRest

\* the sharding engine, no scope in use
InitShard == ShardInit /\ CtxRest /\ CopyRest /\ ExtRest

SpecShard == InitShard /\ [][ShardNext]_vars

\* the sharding engine with direct calls of the tensors' methods
TensorShardNext == ShardNext \/ TensorNext

SpecTensor == InitShard /\ [][TensorShardNext]_vars

\* the initialization scope, no strategy call under way
InitCtx == ShardRest /\ CtxInit /\ CopyRest /\ ExtRest

SpecCtx == InitCtx /\ [][CtxNext]_vars

\* col_model_deepcopy on a model sharded by the strategy
InitCopy == ShardInit /\ CtxRest /\ CopyInit /\ ExtRest

SpecCopy == InitCopy /\ [][CopyNext]_vars

\* the pipeline
InitPipe == PartsRest /\ PipeInit /\ TimerRest /\ NestRest

SpecPipe == InitPipe /\ [][PipeNext]_vars

\* every stage is a running process: a stage that can take a step takes it
SpecPipeLive == InitPipe /\ [][PipeNext]_vars /\ WF_vars(PipeNext)

\* the timers
InitTimer == PartsRest /\ PipeRest /\ TimerInit /\ NestRest

SpecTimer == InitTimer /\ [][TimerNext]_vars

\* two initialization scopes
InitNest == PartsRest /\ PipeRest /\ TimerRest /\ NestInit

SpecNest == InitNest /\ [][NestNext]_vars

=============================================================================
